---- MODULE Spec2Model ----
(***************************************************************************)
(* A model of the Bristol 671 wavemeter driver (package bristol_671):      *)
(*   - the SYSTEM:ERROR? queue drain of Bristol671.drain_error_queue,      *)
(*     with the response parser parse_system_error it is built on;         *)
(*   - the bit registers of registers.py (class Bits and its four          *)
(*     subclasses);                                                        *)
(*   - the parsers and converters of conversion_handling.py;               *)
(*   - the commands, setters, error properties, with-block and get_data    *)
(*     of Bristol671.                                                      *)
(* Response lines are sequences of one-character strings, so that the      *)
(* parsers are computed character by character as the Python code does.    *)
(***************************************************************************)
EXTENDS Integers, Sequences, FiniteSets, TLC

VARIABLES
    pc,              \* position of the driver: "idle", "drain_loop" or "done"
    max_reads,       \* drain_error_queue argument
    raise_on_error,  \* drain_error_queue argument
    entries,         \* drain_error_queue local: list of (SCPIErrors, message)
    sent,            \* queries issued on the transport during the current call
    reads,           \* response lines the transport returned during the call
    outcome,         \* how the current call ended (return value or exception)
    reg,             \* a Bits instance: its enum, size, fault_bits and value
    reg_ret,         \* the last register call: its arguments and its result
    reg_pc,          \* "ready", or "returned" while the caller holds a result
    conv_call,       \* a call of a conversion function: the function, its arguments
    conv_ret,        \* what that call returned or raised, once it was made
    io,              \* what went over the transport: writes, queries and answers
    meter,           \* the Bristol671 object: its close attribute, its with-block
    drv_calls,       \* the methods and setters called on the object, in order
    drv_ret,         \* what the last of these calls returned or raised
    invoked          \* the methods and functions get_data called, in order

drain_vars == <<pc, max_reads, raise_on_error, entries, sent, reads, outcome>>
reg_vars == <<reg, reg_ret, reg_pc>>
conv_vars == <<conv_call, conv_ret>>
drv_vars == <<io, meter, drv_calls, drv_ret, invoked>>
vars == <<pc, max_reads, raise_on_error, entries, sent, reads, outcome, reg, reg_ret,
          reg_pc, conv_call, conv_ret, io, meter, drv_calls, drv_ret, invoked>>

(***************************************************************************)
(* Bounds of the model.                                                    *)
(***************************************************************************)
\* largest max_reads argument a call is made with
MaxReads == 3
MaxCalls == 3
MaxDataCalls == 1

(***************************************************************************)
(* Python str helpers, on sequences of characters.                         *)
(***************************************************************************)
Whitespace == {" ", "\t"}

RECURSIVE LStripChars(_, _)
LStripChars(s, chars) ==
    IF s # <<>> /\ Head(s) \in chars THEN LStripChars(Tail(s), chars) ELSE s

RECURSIVE RStripChars(_, _)
RStripChars(s, chars) ==
    IF s # <<>> /\ s[Len(s)] \in chars
    THEN RStripChars(SubSeq(s, 1, Len(s) - 1), chars)
    ELSE s

\* str.strip(chars): every leading and every trailing character of chars goes
StripChars(s, chars) == RStripChars(LStripChars(s, chars), chars)

\* str.strip()
Strip(s) == StripChars(s, Whitespace)

\* index of the first occurrence of the character c in s, 0 when absent
Find(s, c) ==
    IF \E k \in 1..Len(s) : s[k] = c
    THEN CHOOSE k \in 1..Len(s) : s[k] = c /\ \A j \in 1..(k - 1) : s[j] # c
    ELSE 0

\* a partition at the last occurrence of c instead of the first
RECURSIVE FindLast(_, _)
FindLast(s, c) ==
    IF s = <<>> THEN 0
    ELSE IF s[Len(s)] = c THEN Len(s)
    ELSE FindLast(SubSeq(s, 1, Len(s) - 1), c)

Partition_last(s, c) ==
    LET k == FindLast(s, c)
    IN  IF k = 0 THEN <<s, <<>>, <<>>>>
        ELSE <<SubSeq(s, 1, k - 1), <<c>>, SubSeq(s, k + 1, Len(s))>>

\* str.partition(c): <<before, separator, after>>
Partition(s, c) ==
    LET k == Find(s, c)
    IN  IF k = 0
        THEN <<s, <<>>, <<>>>>
        ELSE <<SubSeq(s, 1, k - 1), <<c>>, SubSeq(s, k + 1, Len(s))>>

DigitChars == <<"0", "1", "2", "3", "4", "5", "6", "7", "8", "9">>

IsDigit(c) == \E k \in 1..10 : DigitChars[k] = c

DigitVal(c) == (CHOOSE k \in 1..10 : DigitChars[k] = c) - 1

RECURSIVE DigitsValue(_)
DigitsValue(s) ==
    IF s = <<>> THEN 0
    ELSE IF s[Len(s)] = "_" THEN DigitsValue(SubSeq(s, 1, Len(s) - 1))
    ELSE 10 * DigitsValue(SubSeq(s, 1, Len(s) - 1)) + DigitVal(s[Len(s)])

\* the digit part of a Python integer literal: digits, single underscores
\* allowed between digits only
IsDigitString(s) ==
    /\ s # <<>>
    /\ \A k \in 1..Len(s) : IsDigit(s[k]) \/ s[k] = "_"
    /\ s[1] # "_"
    /\ s[Len(s)] # "_"
    /\ \A k \in 1..(Len(s) - 1) : ~(s[k] = "_" /\ s[k + 1] = "_")

\* int(s): [ok |-> FALSE] stands for ValueError
ToInt(s) ==
    LET t == Strip(s)
        signed == t # <<>> /\ t[1] \in {"-", "+"}
        body == IF signed THEN Tail(t) ELSE t
    IN  IF IsDigitString(body)
        THEN [ok |-> TRUE,
              val |-> IF signed /\ t[1] = "-" THEN 0 - DigitsValue(body)
                      ELSE DigitsValue(body)]
        ELSE [ok |-> FALSE, val |-> 0]

(***************************************************************************)
(* More Python helpers: str.split and float().                             *)
(***************************************************************************)
\* str.split(c): the fields between the occurrences of the character c
RECURSIVE Split(_, _)
Split(s, c) ==
    LET k == Find(s, c)
    IN  IF k = 0 THEN <<s>>
        ELSE <<SubSeq(s, 1, k - 1)>> \o Split(SubSeq(s, k + 1, Len(s)), c)

\* the longest prefix of s without whitespace
RECURSIVE TokenPrefix(_)
TokenPrefix(s) ==
    IF s = <<>> \/ Head(s) \in Whitespace THEN <<>>
    ELSE <<Head(s)>> \o TokenPrefix(Tail(s))

\* str.split(): the tokens of s that runs of whitespace separate
RECURSIVE SplitWhitespace(_)
SplitWhitespace(s) ==
    LET t == LStripChars(s, Whitespace)
    IN  IF t = <<>> THEN <<>>
        ELSE <<TokenPrefix(t)>>
                \o SplitWhitespace(SubSeq(t, Len(TokenPrefix(t)) + 1, Len(t)))

RECURSIVE Pow10(_)
Pow10(n) == IF n = 0 THEN 1 ELSE 10 * Pow10(n - 1)

\* a decimal number num * 10^exp in its normal form: num has no factor 10,
\* and zero is written with exp 0
RECURSIVE Dec(_, _)
Dec(num, exp) ==
    IF num = 0 THEN [num |-> 0, exp |-> 0]
    ELSE IF num % 10 = 0 THEN Dec(num \div 10, exp + 1)
    ELSE [num |-> num, exp |-> exp]

\* the number of digit characters of a digit string (underscores left out)
DigitCount(s) == Len(SelectSeq(s, IsDigit))

\* float(s) for decimal literals: [ok |-> FALSE] stands for ValueError.  The
\* value is kept as an exact decimal.
ToFloat(s) ==
    LET t == Strip(s)
        signed == t # <<>> /\ t[1] \in {"-", "+"}
        body == IF signed THEN Tail(t) ELSE t
        epos == IF Find(body, "e") # 0 THEN Find(body, "e") ELSE Find(body, "E")
        mant == IF epos = 0 THEN body ELSE SubSeq(body, 1, epos - 1)
        etxt == IF epos = 0 THEN <<>> ELSE SubSeq(body, epos + 1, Len(body))
        esigned == etxt # <<>> /\ etxt[1] \in {"-", "+"}
        edigits == IF esigned THEN Tail(etxt) ELSE etxt
        dot == Find(mant, ".")
        ip == IF dot = 0 THEN mant ELSE SubSeq(mant, 1, dot - 1)
        fp == IF dot = 0 THEN <<>> ELSE SubSeq(mant, dot + 1, Len(mant))
        mant_ok ==
            /\ ip = <<>> \/ IsDigitString(ip)
            /\ fp = <<>> \/ IsDigitString(fp)
            /\ ip # <<>> \/ fp # <<>>
        exp_ok == epos = 0 \/ IsDigitString(edigits)
        evalue == IF epos = 0 THEN 0
                  ELSE IF esigned /\ etxt[1] = "-" THEN 0 - DigitsValue(edigits)
                  ELSE DigitsValue(edigits)
        digits == DigitsValue(ip \o fp)
        value == Dec(IF signed /\ t[1] = "-" THEN 0 - digits ELSE digits,
                     evalue - DigitCount(fp))
    IN  IF mant_ok /\ exp_ok
        THEN [ok |-> TRUE, val |-> value]
        ELSE [ok |-> FALSE, val |-> Dec(0, 0)]

(***************************************************************************)
(* error_codes.py: the SCPIErrors enumeration.                             *)
(***************************************************************************)
SCPIErrorsMembers ==
    { [name |-> "NO_ERROR", value |-> 0],
      [name |-> "INVALID_CHARACTER", value |-> 0 - 101],
      [name |-> "SYNTAX_ERROR", value |-> 0 - 102],
      [name |-> "INVALID_SEPARATOR", value |-> 0 - 103],
      [name |-> "DATA_TYPE_ERROR", value |-> 0 - 104],
      [name |-> "PARAMETER_ERROR", value |-> 0 - 220],
      [name |-> "SETTINGS_CONFLICT", value |-> 0 - 221],
      [name |-> "DATA_OUT_OF_RANGE", value |-> 0 - 222],
      [name |-> "DATA_CORRUPT_OR_STALE", value |-> 0 - 230] }

NO_ERROR == [name |-> "NO_ERROR", value |-> 0]

\* SCPIErrors(code) succeeds
IsSCPIErrorCode(code) == \E m \in SCPIErrorsMembers : m.value = code

\* SCPIErrors(code), when it succeeds
SCPIErrors(code) == CHOOSE m \in SCPIErrorsMembers : m.value = code

(***************************************************************************)
(* conversion_handling.py: parse_system_error and convert_system_error.    *)
(***************************************************************************)
\* parse_system_error with the failure of the integer conversion swallowed
parse_system_error_lenient(val) ==
    LET parts == Partition(val, ",")
        code == ToInt(parts[1])
    IN  IF parts[2] = <<>>
        THEN [exc |-> "BristolParseError", why |-> "missing comma", code |-> 0,
              message |-> <<>>]
        ELSE [exc |-> "None", why |-> "", code |-> code.val,
              message |-> StripChars(Strip(parts[3]), {"\""})]

parse_system_error(val) ==
    LET parts == Partition(val, ",")
        code == ToInt(parts[1])
    IN  IF parts[2] = <<>>
        THEN [exc |-> "BristolParseError", why |-> "missing comma", code |-> 0,
              message |-> <<>>]
        ELSE IF ~code.ok
        THEN [exc |-> "BristolParseError", why |-> "code", code |-> 0,
              message |-> <<>>]
        ELSE [exc |-> "None", why |-> "", code |-> code.val,
              message |-> StripChars(Strip(parts[3]), {"\""})]

\* val.split(",", 1)[0]: the text before the first comma, all of it without one
FirstField(val) == Partition(val, ",")[1]

convert_system_error_coerces(val) ==
    LET error_number == ToInt(FirstField(val))
    IN  IF ~error_number.ok
        THEN [exc |-> "BristolParseError", member |-> NO_ERROR]
        ELSE IF ~IsSCPIErrorCode(error_number.val)
        THEN [exc |-> "None", member |-> NO_ERROR]
        ELSE [exc |-> "None", member |-> SCPIErrors(error_number.val)]

convert_system_error(val) ==
    LET error_number == ToInt(FirstField(val))
    IN  IF ~error_number.ok \/ ~IsSCPIErrorCode(error_number.val)
        THEN [exc |-> "BristolParseError", member |-> NO_ERROR]
        ELSE [exc |-> "None", member |-> SCPIErrors(error_number.val)]

(***************************************************************************)
(* exceptions.py: the classes an exception is an instance of.              *)
(***************************************************************************)
ExceptionClasses(exc) ==
    CASE exc = "BristolParseError" ->
            {"BristolParseError", "BristolError", "ValueError", "Exception"}
      [] exc = "SCPICommandError" ->
            {"SCPICommandError", "BristolError", "Exception"}
      [] exc = "BristolError" -> {"BristolError", "Exception"}
      [] exc = "ValueError" -> {"ValueError", "Exception"}
      [] OTHER -> {"Exception"}

\* a second error with the text of LineInvalidCharacter
LineInvalidSeparator == <<"-", "1", "0", "3", ",", " ", "\"", "I", "\"">>
LineInvalidCharacterAt == <<"-", "1", "0", "1", ",", " ", "\"", "J", "\"">>

(***************************************************************************)
(* The transport: the lines self.system.error() may return.                *)
(***************************************************************************)
\* 0, "N"
LineNoError == <<"0", ",", " ", "\"", "N", "\"">>
\* -101, "I"
LineInvalidCharacter == <<"-", "1", "0", "1", ",", " ", "\"", "I", "\"">>
\* ' -222 ,D' (blanks around the code, message not quoted)
LineOutOfRange == <<" ", "-", "2", "2", "2", " ", ",", "D">>
\* -999, "U" (a code that is no member of SCPIErrors)
LineUnknownCode == <<"-", "9", "9", "9", ",", " ", "\"", "U", "\"">>
\* -101 I (no comma)
LineNoComma == <<"-", "1", "0", "1", " ", "I">>
\* x, "I" (the code portion is no integer)
LineBadCode == <<"x", ",", " ", "\"", "I", "\"">>
\* -102,"S,x" (a second comma, inside the message)
LineSyntaxError == <<"-", "1", "0", "2", ",", "\"", "S", ",", "x", "\"">>

Lines ==
    { LineNoError, LineInvalidCharacter, LineOutOfRange, LineUnknownCode,
      LineNoComma, LineBadCode, LineSyntaxError }

(***************************************************************************)
(* module.py: Bristol671.drain_error_queue.                                *)
(***************************************************************************)
NoOutcome ==
    [kind |-> "none", exc |-> "", msg |-> "", value |-> <<>>, details |-> <<>>]

Return(v) ==
    [kind |-> "return", exc |-> "", msg |-> "", value |-> v, details |-> <<>>]

Raise(exc, msg, details) ==
    [kind |-> "raise", exc |-> exc, msg |-> msg, value |-> <<>>,
     details |-> details]

\* the guard of line 70 with the comparison off by one
max_reads_invalid_strict(mr) == mr < 0

\* if max_reads <= 0
max_reads_invalid(mr) == mr <= 0

\* the break condition never taken
drain_breaks_never(error) == FALSE

\* if error == SCPIErrors.NO_ERROR: break
drain_breaks(error) == error = NO_ERROR

\* the for loop left without its else clause: the collected list is returned
drain_exhausted_truncates(es, mr) == Return(es)

\* the else clause of the for loop
drain_exhausted(es, mr) ==
    Raise("SCPICommandError",
          "SYSTEM:ERROR queue did not terminate with NO_ERROR within max_reads reads",
          <<>>)

\* the active errors cut down to the first one
active_errors_first_only(es) ==
    LET all == SelectSeq(es, LAMBDA entry : entry[1] # NO_ERROR)
    IN  IF all = <<>> THEN <<>> ELSE <<all[1]>>

\* [entry for entry in entries if entry[0] != SCPIErrors.NO_ERROR]
active_errors(es) == SelectSeq(es, LAMBDA entry : entry[1] # NO_ERROR)

\* the pairs "{err.value}: {msg}" that are joined into the message
error_details(active) ==
    [k \in 1..Len(active) |-> <<active[k][1].value, active[k][2]>>]

\* lines 89-101: what the call does once the loop was left by break
drain_finish(es, roe) ==
    IF roe /\ active_errors(es) # <<>>
    THEN Raise("SCPICommandError", "SCPI error queue contains active errors",
               error_details(active_errors(es)))
    ELSE Return(es)

\* except ValueError: raise SCPICommandError(f"Unknown SCPI error code: {code}")
unknown_code_error(code) ==
    Raise("SCPICommandError", "Unknown SCPI error code", <<<<code, <<>>>>>>)

\* a loop that runs one iteration more than range(max_reads)
range_exhausted_late(n, mr) == n > mr

\* for _ in range(max_reads): no iteration is left after the n-th when
\* n has reached max_reads
range_exhausted(n, mr) == n >= mr

\* the call of drain_error_queue up to the first query
drain_error_queue(mr, roe) ==
    /\ pc \in {"idle", "done"}
    /\ max_reads' = mr
    /\ raise_on_error' = roe
    /\ entries' = <<>>
    /\ sent' = <<>>
    /\ reads' = <<>>
    /\ IF max_reads_invalid(mr)
       THEN /\ pc' = "done"
            /\ outcome' = Raise("ValueError", "max_reads must be > 0", <<>>)
       ELSE /\ pc' = "drain_loop"
            /\ outcome' = NoOutcome
    /\ UNCHANGED <<reg_vars, conv_vars, drv_vars>>

\* one iteration of the for loop, the instrument answering with line; the
\* iteration that leaves the loop carries the rest of the call with it
drain_loop(line) ==
    /\ pc = "drain_loop"
    /\ sent' = Append(sent, "SYSTEM:ERROR?")
    /\ reads' = Append(reads, line)
    /\ LET parsed == parse_system_error(line)
       IN  IF parsed.exc # "None"
           THEN /\ pc' = "done"
                /\ outcome' = Raise(parsed.exc, parsed.why, <<>>)
                /\ UNCHANGED entries
           ELSE IF ~IsSCPIErrorCode(parsed.code)
           THEN /\ pc' = "done"
                /\ outcome' = unknown_code_error(parsed.code)
                /\ UNCHANGED entries
           ELSE LET error == SCPIErrors(parsed.code)
                    es == Append(entries, <<error, parsed.message>>)
                IN  /\ entries' = es
                    /\ IF drain_breaks(error)
                       THEN /\ pc' = "done"
                            /\ outcome' = drain_finish(es, raise_on_error)
                       ELSE IF range_exhausted(Len(reads'), max_reads)
                       THEN /\ pc' = "done"
                            /\ outcome' = drain_exhausted(es, max_reads)
                       ELSE /\ pc' = "drain_loop"
                            /\ UNCHANGED outcome
    /\ UNCHANGED <<max_reads, raise_on_error>>
    /\ UNCHANGED <<reg_vars, conv_vars, drv_vars>>

(***************************************************************************)
(* registers.py: the bit-meaning enumerations.                             *)
(***************************************************************************)
\* a member of an Enum class
Member(cls, name, value) ==
    [type |-> "enum", cls |-> cls, name |-> name, value |-> value]

\* a plain Python int, as the items of fault_bits are
PyInt(n) == [type |-> "int", cls |-> "int", name |-> "", value |-> n]

EventStatusEnableBits ==
    { Member("EventStatusEnableBits", "POWER_ON", 7),
      Member("EventStatusEnableBits", "COMMAND_ERROR", 5),
      Member("EventStatusEnableBits", "EXECUTION_ERROR", 4),
      Member("EventStatusEnableBits", "DEVICE_DEPENDENT_ERROR", 3),
      Member("EventStatusEnableBits", "QUERY_ERROR", 2),
      Member("EventStatusEnableBits", "OPERATION_COMPLETE", 0) }

EventStatusBits ==
    { Member("EventStatusBits", "POWER_ON", 7),
      Member("EventStatusBits", "COMMAND_ERROR", 5),
      Member("EventStatusBits", "EXECUTION_ERROR", 4),
      Member("EventStatusBits", "DEVICE_DEPENDENT_ERROR", 3),
      Member("EventStatusBits", "QUERY_ERROR", 2),
      Member("EventStatusBits", "OPERATION_COMPLETE", 0) }

InstrumentStatusBits ==
    { Member("InstrumentStatusBits", "BIT_SET_QUESTIONABLE_REGISTER", 5),
      Member("InstrumentStatusBits", "ERRORS_IN_ERROR_QUEUE", 3),
      Member("InstrumentStatusBits", "BIT_SET_EVENT_STATUS_REGISTER", 2) }

QuestionableStatusBits ==
    { Member("QuestionableStatusBits", "WAVELENGTH_ALREADY_READ", 0),
      Member("QuestionableStatusBits", "POWER_OUT_OF_RANGE", 3),
      Member("QuestionableStatusBits", "TEMPERATURE_OUT_OF_RANGE", 4),
      Member("QuestionableStatusBits", "WAVELENGTH_OUT_OF_RANGE", 5),
      Member("QuestionableStatusBits", "PRESSURE_OUT_OF_RANGE", 9),
      Member("QuestionableStatusBits", "REFERENCE_LASER_NOT_STABILIZED", 10) }

AllEnumMembers ==
    EventStatusEnableBits \cup EventStatusBits \cup InstrumentStatusBits
        \cup QuestionableStatusBits

\* the members of the Enum class named cls
EnumMembers(cls) == {m \in AllEnumMembers : m.cls = cls}

\* cls(v) succeeds: some member of the class has the value v
EnumHasValue(cls, v) == \E m \in EnumMembers(cls) : m.value = v

\* cls(v), when it succeeds
EnumByValue(cls, v) == CHOOSE m \in EnumMembers(cls) : m.value = v

(***************************************************************************)
(* registers.py: class Bits and its four subclasses.                       *)
(***************************************************************************)
\* Bits.__init__
Bits(value, enum, size, has_fault_bits, fault_bits) ==
    [value |-> value, enum |-> enum, size |-> size,
     has_fault_bits |-> has_fault_bits, fault_bits |-> fault_bits]

EventStatusEnableRegister(value) ==
    Bits(value, "EventStatusEnableBits", 8, TRUE, <<5, 4, 3, 2>>)

EventStatusRegister(value) ==
    Bits(value, "EventStatusBits", 8, TRUE, <<5, 4, 3, 2>>)

\* InstrumentStatusByte with a fault bit that has no name in its enumeration
InstrumentStatusByte_unnamed_fault(value) ==
    Bits(value, "InstrumentStatusBits", 6, TRUE, <<4>>)

InstrumentStatusByte(value) ==
    Bits(value, "InstrumentStatusBits", 6, TRUE, <<3>>)

QuestionableStatusRegister(value) ==
    Bits(value, "QuestionableStatusBits", 11, TRUE, <<0, 3, 4, 5, 9, 10>>)

RECURSIVE Pow2(_)
Pow2(n) == IF n = 0 THEN 1 ELSE 2 * Pow2(n - 1)

\* value >> bit & 1, for value >= 0
BitOf(value, bit) == (value \div Pow2(bit)) % 2

\* the result of a register method: what it returns (val, bits or names,
\* by the method) or the exception it raises, and the register value it leaves
RegResult(exc, val, bits, names, value) ==
    [exc |-> exc, val |-> val, bits |-> bits, names |-> names, value |-> value]

RECURSIVE SetBitsFrom(_, _, _)
SetBitsFrom(value, i, size) ==
    IF i >= size THEN <<>>
    ELSE IF BitOf(value, i) = 1
    THEN <<i>> \o SetBitsFrom(value, i + 1, size)
    ELSE SetBitsFrom(value, i + 1, size)

\* Bits.get_set_bits
get_set_bits(r) == SetBitsFrom(r.value, 0, r.size)

\* a set_bit that adds or subtracts the bit's weight whatever the bit was
set_bit_adds(r, bit, bit_value) ==
    IF bit_value \notin {0, 1}
    THEN RegResult("AssertionError", 0, <<>>, <<>>, r.value)
    ELSE IF bit_value = 1
    THEN RegResult("None", 0, <<>>, <<>>, r.value + Pow2(bit))
    ELSE RegResult("None", 0, <<>>, <<>>,
                   IF r.value >= Pow2(bit) THEN r.value - Pow2(bit) ELSE r.value)

\* Bits.set_bit
set_bit(r, bit, bit_value) ==
    IF bit_value \notin {0, 1}
    THEN RegResult("AssertionError", 0, <<>>, <<>>, r.value)
    ELSE IF bit_value = 1
    THEN RegResult("None", 0, <<>>, <<>>,
                   IF BitOf(r.value, bit) = 1 THEN r.value
                   ELSE r.value + Pow2(bit))
    ELSE RegResult("None", 0, <<>>, <<>>,
                   IF BitOf(r.value, bit) = 1 THEN r.value - Pow2(bit)
                   ELSE r.value)

\* Bits.set_bit run with assertions disabled (python -O): the assert statement
\* is not executed, and any bit_value that is true sets the bit
set_bit_no_assert(r, bit, bit_value) ==
    IF bit_value # 0
    THEN RegResult("None", 0, <<>>, <<>>,
                   IF BitOf(r.value, bit) = 1 THEN r.value
                   ELSE r.value + Pow2(bit))
    ELSE RegResult("None", 0, <<>>, <<>>,
                   IF BitOf(r.value, bit) = 1 THEN r.value - Pow2(bit)
                   ELSE r.value)

\* Bits.get_bit
get_bit(r, bit) == RegResult("None", BitOf(r.value, bit), <<>>, <<>>, r.value)

\* Bits.set_value: enum.value is read from whatever object is passed
set_value(r, enum, val) ==
    IF enum.type # "enum"
    THEN RegResult("AttributeError", 0, <<>>, <<>>, r.value)
    ELSE set_bit(r, enum.value, val)

\* Bits.get_value: enum.value is read from whatever object is passed
get_value(r, enum) ==
    IF enum.type # "enum"
    THEN RegResult("AttributeError", 0, <<>>, <<>>, r.value)
    ELSE get_bit(r, enum.value)

RECURSIVE NamesOf(_, _)
NamesOf(cls, bits) ==
    IF bits = <<>> THEN <<>>
    ELSE <<EnumByValue(cls, Head(bits)).name>> \o NamesOf(cls, Tail(bits))

\* Bits.get_set_values: self.enum(bit) raises ValueError for a value that no
\* member has
get_set_values(r) ==
    LET bits == get_set_bits(r)
    IN  IF \E k \in 1..Len(bits) : ~EnumHasValue(r.enum, bits[k])
        THEN RegResult("ValueError", 0, <<>>, <<>>, r.value)
        ELSE RegResult("None", 0, <<>>, NamesOf(r.enum, bits), r.value)

\* Bits.faults: get_value is called with the items of fault_bits, plain ints
faults(r) ==
    IF ~r.has_fault_bits
    THEN RegResult("None", 0, <<>>, <<>>, r.value)
    ELSE LET got == [k \in 1..Len(r.fault_bits) |->
                        get_value(r, PyInt(r.fault_bits[k]))]
         IN  IF \E k \in 1..Len(got) : got[k].exc # "None"
             THEN RegResult(
                     got[CHOOSE k \in 1..Len(got) :
                            /\ got[k].exc # "None"
                            /\ \A j \in 1..(k - 1) : got[j].exc = "None"].exc,
                     0, <<>>, <<>>, r.value)
             ELSE RegResult("None", 0, [k \in 1..Len(got) |-> got[k].val],
                            <<>>, r.value)

\* Bits.is_ok: val is 1 for True, 0 for False
is_ok(r) ==
    LET f == faults(r)
    IN  IF f.exc # "None"
        THEN RegResult(f.exc, 0, <<>>, <<>>, r.value)
        ELSE RegResult("None", IF Len(f.bits) = 0 THEN 1 ELSE 0, <<>>, <<>>,
                       r.value)

(***************************************************************************)
(* The calls made on a register.                                           *)
(***************************************************************************)
NoRegRet ==
    [op |-> "", arg |-> PyInt(0), bit_value |-> 0, before |-> 0,
     result |-> RegResult("None", 0, <<>>, <<>>, 0)]

\* the register takes the value the method leaves, the caller gets the result
RegCall(op, arg, bit_value, result) ==
    /\ reg_pc = "ready"
    /\ reg_pc' = "returned"
    /\ reg' = [reg EXCEPT !.value = result.value]
    /\ reg_ret' = [op |-> op, arg |-> arg, bit_value |-> bit_value,
                   before |-> reg.value, result |-> result]
    /\ UNCHANGED <<drain_vars, conv_vars, drv_vars>>

BitValues == {0, 1, 2}

call_get_set_bits == RegCall("get_set_bits", PyInt(0), 0, 
                             RegResult("None", 0, get_set_bits(reg), <<>>,
                                       reg.value))

\* set_bit, under either setting of the interpreter's assertions (the two
\* differ only for a bit_value that the assert statement rejects)
call_set_bit(bit, bit_value) ==
    \/ RegCall("set_bit", PyInt(bit), bit_value, set_bit(reg, bit, bit_value))
    \/ /\ bit_value \notin {0, 1}
       /\ RegCall("set_bit", PyInt(bit), bit_value,
                  set_bit_no_assert(reg, bit, bit_value))

call_get_bit(bit) == RegCall("get_bit", PyInt(bit), 0, get_bit(reg, bit))

call_set_value(enum, val) ==
    RegCall("set_value", enum, val, set_value(reg, enum, val))

call_get_value(enum) == RegCall("get_value", enum, 0, get_value(reg, enum))

call_get_set_values == RegCall("get_set_values", PyInt(0), 0, get_set_values(reg))

call_faults == RegCall("faults", PyInt(0), 0, faults(reg))

call_is_ok == RegCall("is_ok", PyInt(0), 0, is_ok(reg))

\* the caller is done with the result of the call
reg_return ==
    /\ reg_pc = "returned"
    /\ reg_pc' = "ready"
    /\ reg_ret' = NoRegRet
    /\ UNCHANGED <<reg, drain_vars, conv_vars, drv_vars>>

(***************************************************************************)
(* conversion_handling.py: the parsers of the measurement responses.       *)
(***************************************************************************)
\* what a parser returned (exc = "None") or raised: the exception's class, the
\* class of the exception it was raised from, the fixed text of its message
\* and the value its message quotes
Parsed(value) ==
    [exc |-> "None", cause |-> "", text |-> "", raw |-> <<>>, value |-> value]

ParseFailure(text, raw, cause) ==
    [exc |-> "BristolParseError", cause |-> cause, text |-> text, raw |-> raw,
     value |-> <<>>]

validate_response_at_least(value, expected_parts, context) ==
    LET items == Split(value, ",")
        parts == [k \in 1..Len(items) |-> Strip(items[k])]
    IN  IF Len(parts) < expected_parts
        THEN ParseFailure("Invalid " \o context \o " response format", value, "")
        ELSE Parsed(parts)

validate_response(value, expected_parts, context) ==
    LET items == Split(value, ",")
        parts == [k \in 1..Len(items) |-> Strip(items[k])]
    IN  IF Len(parts) # expected_parts
        THEN ParseFailure("Invalid " \o context \o " response format", value, "")
        ELSE Parsed(parts)

InvalidEnvironment == "Invalid environment response format"

convert_environment_to_environment_data(val) ==
    LET parts == validate_response(val, 2, "ENVIRONMENT")
        temperature_part == SplitWhitespace(parts.value[1])
        pressure_part == SplitWhitespace(parts.value[2])
        temperature == ToFloat(temperature_part[1])
        pressure == ToFloat(pressure_part[1])
    IN  IF parts.exc # "None"
        THEN ParseFailure(InvalidEnvironment, val, parts.exc)
        ELSE IF temperature_part = <<>>
        THEN ParseFailure(InvalidEnvironment, val, "IndexError")
        ELSE IF ~temperature.ok
        THEN ParseFailure(InvalidEnvironment, val, "ValueError")
        ELSE IF pressure_part = <<>>
        THEN ParseFailure(InvalidEnvironment, val, "IndexError")
        ELSE IF ~pressure.ok
        THEN ParseFailure(InvalidEnvironment, val, "ValueError")
        ELSE Parsed([temperature |-> temperature.val, pressure |-> pressure.val])

InvalidAll == "Invalid ALL response format"

convert_all_to_bristol_data(val) ==
    LET values == validate_response(val, 4, "ALL")
        scan_index == ToInt(values.value[1])
        instrument_status == ToInt(values.value[2])
        wavelength == ToFloat(values.value[3])
        power == ToFloat(values.value[4])
    IN  IF values.exc # "None"
        THEN ParseFailure(InvalidAll, val, values.exc)
        ELSE IF ~scan_index.ok \/ ~instrument_status.ok \/ ~wavelength.ok
                    \/ ~power.ok
        THEN ParseFailure(InvalidAll, val, "ValueError")
        ELSE Parsed([scan_index |-> scan_index.val,
                     instrument_status |-> instrument_status.val,
                     wavelength |-> wavelength.val, power |-> power.val])

\* the string literal of line 231, character by character: it is not an
\* f-string, so the braces and the name between them are part of the text
StateNotOnOrOff ==
    <<"S", "t", "a", "t", "e", " ", "n", "o", "t", " ", "'", "O", "n", "'", " ",
      "o", "r", " ", "'", "O", "f", "f", "'", " ", "b", "u", "t", " ", "'",
      "{", "v", "a", "l", "}", "'">>

convert_average_state(val) ==
    IF val = <<"O", "N">>
    THEN [exc |-> "None", value |-> TRUE, message |-> <<>>]
    ELSE IF val = <<"O", "F", "F">>
    THEN [exc |-> "None", value |-> FALSE, message |-> <<>>]
    ELSE [exc |-> "ValueError", value |-> FALSE, message |-> StateNotOnOrOff]

(***************************************************************************)
(* conversion_handling.py: convert_to_unit.  A measurement value is an     *)
(* exact decimal here; pint's quantities are a magnitude with a unit, and  *)
(* Quantity.to rescales between units of one dimension.                    *)
(***************************************************************************)
MeasureData ==
    {"POWER", "FREQUENCY", "WAVELENGTH", "WAVENUMBER", "ENVIRONMENT", "ALL"}

PowerUnit == {"dBm", "mW"}

\* the units of the registry that the calls use: dimension, and the power of
\* ten that takes the unit to the SI unit of its dimension
UnitTable ==
    {[unit |-> "milliwatt", dim |-> "power", scale |-> 0 - 3],
     [unit |-> "watt", dim |-> "power", scale |-> 0],
     [unit |-> "terahertz", dim |-> "frequency", scale |-> 12],
     [unit |-> "gigahertz", dim |-> "frequency", scale |-> 9],
     [unit |-> "nanometer", dim |-> "length", scale |-> 0 - 9],
     [unit |-> "micrometer", dim |-> "length", scale |-> 0 - 6],
     [unit |-> "1/centimeter", dim |-> "1/length", scale |-> 2],
     [unit |-> "1/meter", dim |-> "1/length", scale |-> 0]}

UnitOf(name) == CHOOSE u \in UnitTable : u.unit = name

Quantity(magnitude, unit) == [magnitude |-> magnitude, unit |-> unit]

\* what convert_to_unit returned or raised, with the steps it took to get there
UnitResult(exc, text, steps, tagged, value) ==
    [exc |-> exc, text |-> text, steps |-> steps, tagged |-> tagged,
     value |-> value]

\* (value * ureg.<from>).to(unit)
QuantityTo(value, steps, from, unit) ==
    LET tagged == Quantity(value, from)
        shift == UnitOf(from).scale - UnitOf(unit).scale
    IN  IF UnitOf(from).dim # UnitOf(unit).dim
        THEN UnitResult("DimensionalityError", "", steps \o <<"tag", "to">>,
                        tagged, tagged)
        ELSE UnitResult("None", "", steps \o <<"tag", "to">>, tagged,
                        Quantity(Dec(value.num, value.exp + shift), unit))

dBm_to_mW_identity(dBm) == dBm

\* 10 ** (dBm / 10), for dBm a whole multiple of ten
dBm_to_mW(dBm) == Dec(1, (dBm.num * Pow10(dBm.exp)) \div 10)

NoQuantity == Quantity(Dec(0, 0), "")

convert_to_unit(value, data, unit, power_unit) ==
    IF data = "POWER"
    THEN IF power_unit = "None"
         THEN UnitResult("ValueError",
                         "power_unit must be provided when converting power data",
                         <<>>, NoQuantity, NoQuantity)
         ELSE IF power_unit = "dBm"
         THEN QuantityTo(dBm_to_mW(value), <<"dBm_to_mW">>, "milliwatt", unit)
         ELSE QuantityTo(value, <<>>, "milliwatt", unit)
    ELSE IF data = "FREQUENCY" THEN QuantityTo(value, <<>>, "terahertz", unit)
    ELSE IF data = "WAVELENGTH" THEN QuantityTo(value, <<>>, "nanometer", unit)
    ELSE IF data = "WAVENUMBER" THEN QuantityTo(value, <<>>, "1/centimeter", unit)
    ELSE UnitResult("ValueError",
                    "Unit conversion is not supported for data type: " \o data,
                    <<>>, NoQuantity, NoQuantity)

(***************************************************************************)
(* The calls of the conversion functions.                                  *)
(***************************************************************************)
NoConvCall ==
    [fn |-> "", arg |-> <<>>, value |-> Dec(0, 0), data |-> "", unit |-> "",
     power_unit |-> ""]

NoConvRet == [fn |-> ""]

\* the call is made once: its result is kept beside its arguments
ConvCall(fn, result) ==
    /\ conv_call.fn = fn
    /\ conv_ret = NoConvRet
    /\ conv_ret' = [fn |-> fn, result |-> result]
    /\ UNCHANGED <<conv_call, drain_vars, reg_vars, drv_vars>>

call_parse_system_error ==
    ConvCall("parse_system_error", parse_system_error(conv_call.arg))

call_convert_system_error ==
    ConvCall("convert_system_error", convert_system_error(conv_call.arg))

call_convert_environment_to_environment_data ==
    ConvCall("convert_environment_to_environment_data",
             convert_environment_to_environment_data(conv_call.arg))

call_convert_all_to_bristol_data ==
    ConvCall("convert_all_to_bristol_data",
             convert_all_to_bristol_data(conv_call.arg))

call_convert_average_state ==
    ConvCall("convert_average_state", convert_average_state(conv_call.arg))

call_convert_to_unit ==
    ConvCall("convert_to_unit",
             convert_to_unit(conv_call.value, conv_call.data, conv_call.unit,
                             conv_call.power_unit))

(***************************************************************************)
(* module.py: the Bristol671 object on its transport.  A write puts a      *)
(* command on the transport; a query puts a command on it and gets a line  *)
(* back from the instrument.                                               *)
(***************************************************************************)
\* the object and its close attribute: "callable", "not_callable" (an
\* attribute that cannot be called) or "absent"; closed counts the calls of
\* close, in_with tells whether a with-block on the object is open
NewMeter(close) == [close |-> close, closed |-> 0, in_with |-> FALSE]

NoDrvRet == [op |-> "", exc |-> "None", text |-> "", value |-> <<>>]

\* what a call returned, or the exception it raised
DrvReturn(op, value) == [op |-> op, exc |-> "None", text |-> "", value |-> value]
DrvRaise(op, exc, text) == [op |-> op, exc |-> exc, text |-> text, value |-> <<>>]

Written(cmd) == [kind |-> "write", cmd |-> cmd, response |-> <<>>]
Queried(cmd, response) == [kind |-> "query", cmd |-> cmd, response |-> response]

\* no argument, and the exception class handed to __exit__
NoArg == [type |-> "None", cls |-> "NoneType", name |-> "", value |-> 0]
PyType(name) == [type |-> "type", cls |-> "type", name |-> name, value |-> 0]

\* an entry of drv_calls: the call, its argument and how it ended
Called(op, arg, ret) == [op |-> op, arg |-> arg, ret |-> ret]

\* a call of the object named op that puts sequence ios on the transport and
\* ends as ret
DrvCall(op, arg, ios, ret) ==
    /\ Len(drv_calls) < MaxCalls
    /\ drv_calls' = Append(drv_calls, Called(op, arg, ret))
    /\ io' = io \o ios
    /\ drv_ret' = ret
    /\ UNCHANGED <<meter, invoked, drain_vars, reg_vars, conv_vars>>

\* self.write("*CLS") and the like
CLS == DrvCall("CLS", NoArg, <<Written("*CLS")>>, DrvReturn("CLS", <<>>))
RCL == DrvCall("RCL", NoArg, <<Written("*RCL")>>, DrvReturn("RCL", <<>>))
RST == DrvCall("RST", NoArg, <<Written("*RST")>>, DrvReturn("RST", <<>>))
SAV == DrvCall("SAV", NoArg, <<Written("*SAV")>>, DrvReturn("SAV", <<>>))

\* the aliases: self.CLS() and the like
clear_status ==
    DrvCall("clear_status", NoArg, <<Written("*CLS")>>, DrvReturn("clear_status", <<>>))

restore_state ==
    DrvCall("restore_state", NoArg, <<Written("*RCL")>>, DrvReturn("restore_state", <<>>))

\* a reset that writes the command of restore_state
reset_recalls ==
    DrvCall("reset", NoArg, <<Written("*RCL")>>, DrvReturn("reset", <<>>))

reset == DrvCall("reset", NoArg, <<Written("*RST")>>, DrvReturn("reset", <<>>))

save_state ==
    DrvCall("save_state", NoArg, <<Written("*SAV")>>, DrvReturn("save_state", <<>>))

\* a value that is not an int
PyStr(text) == [type |-> "str", cls |-> "str", name |-> text, value |-> 0]

ESE_setter_unchecked(val) ==
    DrvCall("ESE", val, <<Written("*ESE " \o ToString(val.value))>>,
            DrvReturn("ESE", <<>>))

\* the setter of ESE
ESE_setter(val) ==
    IF val.type # "int"
    THEN DrvCall("ESE", val, <<>>, DrvRaise("ESE", "TypeError", "val must be an int"))
    ELSE IF ~(0 <= val.value /\ val.value <= 255)
    THEN DrvCall("ESE", val, <<>>,
                 DrvRaise("ESE", "SCPICommandError",
                          "val must be in range [0, 255] for *ESE"))
    ELSE DrvCall("ESE", val, <<Written("*ESE " \o ToString(val.value))>>,
                 DrvReturn("ESE", <<>>))

\* the setter of average_count; self.sense.average.count(count) writes the
\* command of that name with the count
average_count_setter(count) ==
    IF count.type # "int"
    THEN DrvCall("average_count", count, <<>>,
                 DrvRaise("average_count", "TypeError", "count must be an int"))
    ELSE IF count.value <= 0
    THEN DrvCall("average_count", count, <<>>,
                 DrvRaise("average_count", "SCPICommandError", "count must be > 0"))
    ELSE DrvCall("average_count", count,
                 <<Written("SENSE:AVERAGE:COUNT " \o ToString(count.value))>>,
                 DrvReturn("average_count", <<>>))

\* __enter__: return self
__enter__ ==
    /\ Len(drv_calls) < MaxCalls
    /\ ~meter.in_with
    /\ meter' = [meter EXCEPT !.in_with = TRUE]
    /\ drv_calls' = Append(drv_calls, Called("__enter__", NoArg,
                                              DrvReturn("__enter__", <<"self">>)))
    /\ drv_ret' = DrvReturn("__enter__", <<"self">>)
    /\ UNCHANGED <<io, invoked, drain_vars, reg_vars, conv_vars>>

\* what leaves a with statement whose block ended with exc_type ("None" when
\* it ended normally) and whose __exit__ returned a true or a false value
WithPropagates(exc_type, exit_value_true) ==
    IF exit_value_true THEN "None" ELSE exc_type

\* an __exit__ that closes only when the block ended normally
__exit___on_success(exc_type) ==
    /\ Len(drv_calls) < MaxCalls
    /\ meter.in_with
    /\ meter' = [meter EXCEPT
                    !.in_with = FALSE,
                    !.closed = IF meter.close = "callable" /\ exc_type = "None"
                               THEN @ + 1 ELSE @]
    /\ drv_ret' = [op |-> "__exit__", exc |-> WithPropagates(exc_type, FALSE),
                   text |-> "", value |-> <<>>]
    /\ drv_calls' = Append(drv_calls, Called("__exit__", PyType(exc_type), drv_ret'))
    /\ UNCHANGED <<io, invoked, drain_vars, reg_vars, conv_vars>>

\* __exit__(exc_type, exc, tb) at the end of the with-block: close_method is
\* called if it is callable; the method returns None, which is a false value
__exit__(exc_type) ==
    /\ Len(drv_calls) < MaxCalls
    /\ meter.in_with
    /\ meter' = [meter EXCEPT
                    !.in_with = FALSE,
                    !.closed = IF meter.close = "callable" THEN @ + 1 ELSE @]
    /\ drv_ret' = [op |-> "__exit__", exc |-> WithPropagates(exc_type, FALSE),
                   text |-> "", value |-> <<>>]
    /\ drv_calls' = Append(drv_calls, Called("__exit__", PyType(exc_type), drv_ret'))
    /\ UNCHANGED <<io, invoked, drain_vars, reg_vars, conv_vars>>

\* the property system_error, the instrument answering the query with line
system_error(line) ==
    LET error == convert_system_error(line)
    IN  DrvCall("system_error", NoArg, <<Queried("SYSTEM:ERROR?", line)>>,
                IF error.exc = "None"
                THEN DrvReturn("system_error", error.member)
                ELSE DrvRaise("system_error", error.exc,
                              "Invalid SYSTEM:ERROR response"))

\* a system_error_message that asks the instrument nothing
system_error_message_silent(line) ==
    LET parsed == parse_system_error(line)
    IN  DrvCall("system_error_message", NoArg, <<>>,
                IF parsed.exc = "None"
                THEN DrvReturn("system_error_message", parsed.message)
                ELSE DrvRaise("system_error_message", parsed.exc, parsed.why))

\* the property system_error_message
system_error_message(line) ==
    LET parsed == parse_system_error(line)
    IN  DrvCall("system_error_message", NoArg, <<Queried("SYSTEM:ERROR?", line)>>,
                IF parsed.exc = "None"
                THEN DrvReturn("system_error_message", parsed.message)
                ELSE DrvRaise("system_error_message", parsed.exc, parsed.why))

(***************************************************************************)
(* module.py: the measurement methods and get_data.                        *)
(***************************************************************************)
MeasureMethod == {"FETCH", "READ", "MEASURE"}

\* the members of MeasureData and of MeasureMethod, and their values
MeasureDataValues ==
    {<<"POWER", 0>>, <<"FREQUENCY", 1>>, <<"WAVELENGTH", 2>>,
     <<"WAVENUMBER", 3>>, <<"ENVIRONMENT", 4>>, <<"ALL", 5>>}
MeasureMethodValues == {<<"FETCH", 0>>, <<"READ", 1>>, <<"MEASURE", 2>>}

\* str.lower on the names of the members
LowerNames ==
    {<<"FETCH", "fetch">>, <<"READ", "read">>, <<"MEASURE", "measure">>,
     <<"POWER", "power">>, <<"FREQUENCY", "frequency">>,
     <<"WAVELENGTH", "wavelength">>, <<"WAVENUMBER", "wavenumber">>,
     <<"ENVIRONMENT", "environment">>, <<"ALL", "all">>}

Lower(name) == (CHOOSE pair \in LowerNames : pair[1] = name)[2]

\* a fetch_/read_/measure_ method: its name, the query it sends, the function
\* it hands the answer to
Method(name, query, parser) == [name |-> name, query |-> query, parser |-> parser]

\* the measurement methods of Bristol671
DriverMethods ==
    {Method("fetch_environment", "FETCH:ENV?", "convert_environment_to_environment_data"),
     Method("read_environment", "READ:ENV?", "convert_environment_to_environment_data"),
     Method("measure_environment", "MEASURE:ENV?", "convert_environment_to_environment_data"),
     Method("fetch_wavelength", "FETCH:WAVELENGTH?", "to_float"),
     Method("read_wavelength", "READ:WAVELENGTH?", "to_float"),
     Method("measure_wavelength", "MEASURE:WAVELENGTH?", "to_float"),
     Method("fetch_frequency", "FETCH:FREQUENCY?", "to_float"),
     Method("read_frequency", "READ:FREQUENCY?", "to_float"),
     Method("measure_frequency", "MEASURE:FREQUENCY?", "to_float"),
     Method("fetch_power", "FETCH:POWER?", "to_float"),
     Method("read_power", "READ:POWER?", "to_float"),
     Method("measure_power", "MEASURE:POWER?", "to_float"),
     Method("fetch_wavenumber", "FETCH:WNUMBER?", "to_float"),
     Method("read_wavenumber", "READ:WNUMBER?", "to_float"),
     Method("measure_wavenumber", "MEASURE:WNUMBER?", "to_float"),
     Method("fetch_all", "FETCH:ALL?", "convert_all_to_bristol_data"),
     Method("read_all", "READ:ALL?", "convert_all_to_bristol_data"),
     Method("measure_all", "MEASURE:ALL?", "convert_all_to_bristol_data")}

\* hasattr(self, name) and getattr(self, name)
HasMethod(name) == \E m \in DriverMethods : m.name = name
Getattr(name) == CHOOSE m \in DriverMethods : m.name = name

\* what a measurement method makes of the instrument's answer
Measured(exc, value) == [exc |-> exc, value |-> value]

\* float(val): the number, or ValueError
FloatOf(f) == IF f.ok THEN Measured("None", f.val) ELSE Measured("ValueError", <<>>)

to_float(val) == FloatOf(ToFloat(val))

\* the dataclass a parser returned, or the error it raised
RecordOf(parsed) == Measured(parsed.exc, parsed.value)

CallMethod(m, response) ==
    CASE m.parser = "to_float" -> to_float(response)
      [] m.parser = "convert_environment_to_environment_data" ->
            RecordOf(convert_environment_to_environment_data(response))
      [] m.parser = "convert_all_to_bristol_data" ->
            RecordOf(convert_all_to_bristol_data(response))

\* a unit_power that never asks for dBm
unit_power_mW(response) == "mW"

\* the property unit_power, the instrument answering UNIT:POWER? with response
unit_power(response) == IF response = <<"D", "B", "M">> THEN "dBm" ELSE "mW"

\* one call made by get_data
Invoked(fn, args) == [fn |-> fn, args |-> args]

\* how get_data ends: what it returns or raises, what it sent, what it called
DataEnd(ret, ios, calls) == [ret |-> ret, ios |-> ios, calls |-> calls]

\* a dispatch that takes the fetch_ method whatever the method argument is
get_data_method_fetch(data, method) == "fetch" \o "_" \o Lower(data.name)

\* f"{method.name.lower()}_{data.name.lower()}"
get_data_method(data, method) == Lower(method.name) \o "_" \o Lower(data.name)

\* lines 167-175 of get_data: val is what the method called name returned,
\* measure the query it sent; power_response answers UNIT:POWER?
get_data_convert(name, val, measure, data, unit, power_response) ==
    LET power_unit ==
            IF data.name = "POWER" THEN unit_power(power_response) ELSE "None"
        unit_query ==
            IF data.name = "POWER"
            THEN <<Queried("UNIT:POWER?", power_response)>> ELSE <<>>
        unit_call ==
            IF data.name = "POWER" THEN <<Invoked("unit_power", <<>>)>> ELSE <<>>
        converted == convert_to_unit(val, data.name, unit, power_unit)
        calls ==
            <<Invoked(name, <<>>)>> \o unit_call
                \o <<Invoked("convert_to_unit",
                             <<val, data.name, unit, power_unit>>)>>
    IN  IF unit = "None"
        THEN DataEnd(DrvReturn("get_data", val), measure, <<Invoked(name, <<>>)>>)
        ELSE IF data.name \in {"ENVIRONMENT", "ALL"}
        THEN DataEnd(DrvRaise("get_data", "SCPICommandError",
                              "Unit conversion is not supported for "
                                  \o data.name),
                     measure, <<Invoked(name, <<>>)>>)
        ELSE DataEnd([op |-> "get_data", exc |-> converted.exc,
                      text |-> converted.text,
                      value |-> IF converted.exc = "None"
                                THEN converted.value ELSE <<>>],
                     measure \o unit_query, calls)

\* line 166 of get_data: the method called name is m; response answers its
\* query
get_data_measure(name, m, measured, data, unit, response, power_response) ==
    IF measured.exc # "None"
    THEN DataEnd(DrvRaise("get_data", measured.exc, ""),
                 <<Queried(m.query, response)>>, <<Invoked(name, <<>>)>>)
    ELSE get_data_convert(name, measured.value, <<Queried(m.query, response)>>,
                          data, unit, power_response)

\* getattr(self, name)(), name being the method get_data selects
get_data_dispatch(name, data, unit, response, power_response) ==
    IF ~HasMethod(name)
    THEN DataEnd(DrvRaise("get_data", "AttributeError", name), <<>>, <<>>)
    ELSE get_data_measure(name, Getattr(name),
                          CallMethod(Getattr(name), response),
                          data, unit, response, power_response)

\* get_data(data, method, unit): response answers the measurement query,
\* power_response answers UNIT:POWER?
get_data_end(data, method, unit, response, power_response) ==
    IF ~(data.type = "enum" /\ data.cls = "MeasureData")
    THEN DataEnd(DrvRaise("get_data", "TypeError",
                          "data must be an instance of MeasureData"),
                 <<>>, <<>>)
    ELSE IF ~(method.type = "enum" /\ method.cls = "MeasureMethod")
    THEN DataEnd(DrvRaise("get_data", "TypeError",
                          "method must be an instance of MeasureMethod"),
                 <<>>, <<>>)
    ELSE get_data_dispatch(get_data_method(data, method), data, unit, response,
                           power_response)

\* the arguments of a get_data call
DataArgs(data, method, unit) == [data |-> data, method |-> method, unit |-> unit]

\* one call of get_data: its end is computed once, then recorded
get_data(data, method, unit, response, power_response) ==
    \E end \in {get_data_end(data, method, unit, response, power_response)} :
        /\ Len(drv_calls) < MaxDataCalls
        /\ drv_calls' = Append(drv_calls,
                               Called("get_data", DataArgs(data, method, unit),
                                      end.ret))
        /\ io' = io \o end.ios
        /\ invoked' = invoked \o end.calls
        /\ drv_ret' = end.ret
        /\ UNCHANGED <<meter, drain_vars, reg_vars, conv_vars>>

(***************************************************************************)
(* The driver's specification.                                             *)
(***************************************************************************)
MaxReadsArgs == (0 - 1)..MaxReads

Init ==
    /\ pc = "idle"
    /\ max_reads = 32
    /\ raise_on_error = FALSE
    /\ entries = <<>>
    /\ sent = <<>>
    /\ reads = <<>>
    /\ outcome = NoOutcome
    /\ reg = EventStatusRegister(0)
    /\ reg_ret = NoRegRet
    /\ reg_pc = "ready"
    /\ conv_call = NoConvCall
    /\ conv_ret = NoConvRet
    /\ io = <<>>
    /\ meter = NewMeter("callable")
    /\ drv_calls = <<>>
    /\ drv_ret = NoDrvRet
    /\ invoked = <<>>

Next ==
    \/ \E mr \in MaxReadsArgs, roe \in BOOLEAN : drain_error_queue(mr, roe)
    \/ \E line \in Lines : drain_loop(line)

Spec == Init /\ [][Next]_vars

(***************************************************************************)
(* The specification of a register: constructed from a value read from the *)
(* instrument, then read and written through its methods.                  *)
(***************************************************************************)
\* a Bits instance built directly, without fault bits
PlainBits(value) == Bits(value, "EventStatusBits", 8, FALSE, <<>>)

Registers ==
    {EventStatusEnableRegister(v) : v \in 0..(Pow2(8) - 1)}
        \cup {EventStatusRegister(v) : v \in 0..(Pow2(8) - 1)}
        \cup {InstrumentStatusByte(v) : v \in 0..(Pow2(6) - 1)}
        \cup {QuestionableStatusRegister(v) : v \in 0..(Pow2(11) - 1)}
        \cup {PlainBits(v) : v \in 0..(Pow2(8) - 1)}

RegInit ==
    /\ pc = "idle"
    /\ max_reads = 32
    /\ raise_on_error = FALSE
    /\ entries = <<>>
    /\ sent = <<>>
    /\ reads = <<>>
    /\ outcome = NoOutcome
    /\ reg \in Registers
    /\ reg_ret = NoRegRet
    /\ reg_pc = "ready"
    /\ conv_call = NoConvCall
    /\ conv_ret = NoConvRet
    /\ io = <<>>
    /\ meter = NewMeter("callable")
    /\ drv_calls = <<>>
    /\ drv_ret = NoDrvRet
    /\ invoked = <<>>

RegNext ==
    \/ call_get_set_bits
    \/ \E bit \in 0..(reg.size - 1), bit_value \in BitValues :
          call_set_bit(bit, bit_value)
    \/ \E bit \in 0..(reg.size - 1) : call_get_bit(bit)
    \/ \E enum \in AllEnumMembers, val \in BitValues : call_set_value(enum, val)
    \/ \E enum \in AllEnumMembers : call_get_value(enum)
    \/ call_get_set_values
    \/ call_faults
    \/ call_is_ok
    \/ reg_return

RegSpec == RegInit /\ [][RegNext]_vars

(***************************************************************************)
(* The specification of the conversion functions: a call with arguments    *)
(* drawn from the lines and values below, then the function applied.       *)
(***************************************************************************)
MaxCodeLen == 2
MaxMsgLen == 4
CodeBound == 231
MaxExtraFields == 1
MaxAllFields == 5
MaxTokenLen == 3
MaxDecades == 2

StringsUpTo(alphabet, n) == UNION {[1..k -> alphabet] : k \in 0..n}

\* str(n) of a natural number, and of an integer
RECURSIVE NatToStr(_)
NatToStr(n) ==
    IF n < 10 THEN <<DigitChars[n + 1]>>
    ELSE NatToStr(n \div 10) \o <<DigitChars[(n % 10) + 1]>>

IntToStr(n) == IF n < 0 THEN <<"-">> \o NatToStr(0 - n) ELSE NatToStr(n)

\* ",".join(fields)
RECURSIVE Join(_)
Join(fields) ==
    IF Len(fields) = 1 THEN fields[1]
    ELSE fields[1] \o <<",">> \o Join(Tail(fields))

CodeAlphabet == {"-", "1", " "}
MessageAlphabet == {"\"", "a", " ", ","}

\* the integers of the range, rendered
RenderedCodes == {IntToStr(n) : n \in (0 - CodeBound)..CodeBound}

\* what follows the code portion in the lines for the lookup of a code
CodeLineRests == {<<>>, <<",", "a">>, <<",", "a", ",", "1">>}

EnvNumbers == {<<"2", ".", "5">>, <<"-", "7">>, <<"x">>, <<>>}
EnvSuffixes == {<<"C">>, <<"M", "M", "H", "G">>, <<>>}
Padding == {<<>>, <<" ">>}

EnvFields ==
    {pad \o number \o gap \o suffix \o pad :
        pad \in Padding, number \in EnvNumbers, gap \in Padding,
        suffix \in EnvSuffixes}

\* fields that follow the first two of an environment line
ExtraFields == {<<"1", " ", "C">>, <<>>}

AllFields == {<<"1", "2">>, <<" ", "0", " ">>, <<"1", ".", "5">>, <<"x">>, <<>>}

TokenAlphabet == {"O", "N", "F", "o", "n", " ", "1"}

\* measurement values: the whole multiples of ten, as decimals
MeasureValues == {Dec(10 * k, 0) : k \in (0 - MaxDecades)..MaxDecades}
TargetUnits == {"milliwatt", "watt", "gigahertz", "micrometer", "1/meter"}

LineCall(fn, line) == [NoConvCall EXCEPT !.fn = fn, !.arg = line]

\* the calls: a code portion, a comma and a message; a line without a comma;
\* a rendered code alone or before a message; one environment field, or two
\* and more after them; one to MaxAllFields fields of a scan record; a token
\* of the averaging state; a value to convert
ConvCalls(call) ==
    \/ \E c \in StringsUpTo(CodeAlphabet, MaxCodeLen), k \in 0..MaxMsgLen :
          \E m \in [1..k -> MessageAlphabet] :
              call = LineCall("parse_system_error", c \o <<",">> \o m)
    \/ \E line \in StringsUpTo(CodeAlphabet, MaxCodeLen) \cup Lines :
          call = LineCall("parse_system_error", line)
    \/ \E c \in StringsUpTo(CodeAlphabet, MaxCodeLen) \cup RenderedCodes,
          rest \in CodeLineRests :
          call = LineCall("convert_system_error", c \o rest)
    \/ \E line \in Lines : call = LineCall("convert_system_error", line)
    \/ \E field \in EnvFields :
          call = LineCall("convert_environment_to_environment_data", field)
    \/ \E first \in EnvFields, second \in EnvFields, n \in 0..MaxExtraFields :
          \E extra \in [1..n -> ExtraFields] :
              call = LineCall("convert_environment_to_environment_data",
                              Join(<<first, second>> \o extra))
    \/ \E n \in 1..MaxAllFields : \E fields \in [1..n -> AllFields] :
          call = LineCall("convert_all_to_bristol_data", Join(fields))
    \/ \E k \in 0..MaxTokenLen : \E token \in [1..k -> TokenAlphabet] :
          call = LineCall("convert_average_state", token \o <<>>)
    \/ \E value \in MeasureValues, data \in MeasureData, unit \in TargetUnits,
          power_unit \in PowerUnit \cup {"None"} :
          call = [fn |-> "convert_to_unit", arg |-> <<>>, value |-> value,
                  data |-> data, unit |-> unit, power_unit |-> power_unit]

ConvInit ==
    /\ pc = "idle"
    /\ max_reads = 32
    /\ raise_on_error = FALSE
    /\ entries = <<>>
    /\ sent = <<>>
    /\ reads = <<>>
    /\ outcome = NoOutcome
    /\ reg = EventStatusRegister(0)
    /\ reg_ret = NoRegRet
    /\ reg_pc = "ready"
    /\ ConvCalls(conv_call)
    /\ conv_ret = NoConvRet
    /\ io = <<>>
    /\ meter = NewMeter("callable")
    /\ drv_calls = <<>>
    /\ drv_ret = NoDrvRet
    /\ invoked = <<>>

ConvNext ==
    \/ call_parse_system_error
    \/ call_convert_system_error
    \/ call_convert_environment_to_environment_data
    \/ call_convert_all_to_bristol_data
    \/ call_convert_average_state
    \/ call_convert_to_unit

ConvSpec == ConvInit /\ [][ConvNext]_vars

(***************************************************************************)
(* The specification of the object's commands, setters, error properties   *)
(* and with-block: up to MaxCalls calls in any order.                      *)
(***************************************************************************)
CloseAttributes == {"callable", "not_callable", "absent"}

\* values assigned to ESE and to average_count
ESEValues == {PyInt(0 - 1), PyInt(0), PyInt(255), PyInt(256), PyStr("1")}
CountValues == {PyInt(0 - 1), PyInt(0), PyInt(2), PyStr("2")}

\* what the instrument answers SYSTEM:ERROR? with
QueueLines ==
    {LineNoError, LineInvalidCharacter, LineInvalidCharacterAt,
     LineInvalidSeparator, LineNoComma}

\* how a with-block ends: normally, or by an exception
BlockEnds == {"None", "RuntimeError"}

DrvInit ==
    /\ pc = "idle"
    /\ max_reads = 32
    /\ raise_on_error = FALSE
    /\ entries = <<>>
    /\ sent = <<>>
    /\ reads = <<>>
    /\ outcome = NoOutcome
    /\ reg = EventStatusRegister(0)
    /\ reg_ret = NoRegRet
    /\ reg_pc = "ready"
    /\ conv_call = NoConvCall
    /\ conv_ret = NoConvRet
    /\ io = <<>>
    /\ \E close \in CloseAttributes : meter = NewMeter(close)
    /\ drv_calls = <<>>
    /\ drv_ret = NoDrvRet
    /\ invoked = <<>>

DrvNext ==
    \/ clear_status
    \/ CLS
    \/ restore_state
    \/ RCL
    \/ reset
    \/ RST
    \/ save_state
    \/ SAV
    \/ \E val \in ESEValues : ESE_setter(val)
    \/ \E count \in CountValues : average_count_setter(count)
    \/ \E line \in QueueLines : system_error(line)
    \/ \E line \in QueueLines : system_error_message(line)
    \/ __enter__
    \/ \E exc_type \in BlockEnds : __exit__(exc_type)

DrvSpec == DrvInit /\ [][DrvNext]_vars

\* the data and method arguments of get_data: the members, and a str each
DataValues ==
    {Member("MeasureData", pair[1], pair[2]) : pair \in MeasureDataValues}
        \cup {PyStr("POWER")}
MethodValues ==
    {Member("MeasureMethod", pair[1], pair[2]) : pair \in MeasureMethodValues}
        \cup {PyStr("READ")}

\* the unit argument: None or a unit of the registry
UnitValues == {"None", "watt", "micrometer"}

\* what the instrument answers a measurement query with
MeasureResponses ==
    {<<"1", "0">>, <<"-", "2", "0">>, <<"x">>,
     <<"2", ".", "5", " ", "C", ",", "7", " ", "M", "M", "H", "G">>,
     <<"1", "2", ",", "0", ",", "1", ".", "5", ",", "1", "0">>}

\* what the instrument answers UNIT:POWER? with
PowerResponses == {<<"D", "B", "M">>, <<"M", "W">>}

\* get_data on an object after construction
DataInit == DrvInit /\ meter = NewMeter("callable")

DataNext ==
    \E data \in DataValues, method \in MethodValues, unit \in UnitValues,
       response \in MeasureResponses, power_response \in PowerResponses :
        get_data(data, method, unit, response, power_response)

DataSpec == DataInit /\ [][DataNext]_vars

(***************************************************************************)
(* Properties of drain_error_queue.                                        *)
(***************************************************************************)
\* the code portion of a line: the text before its first comma
CodePortion(line) == SubSeq(line, 1, Find(line, ",") - 1)

\* a line with no comma, or whose code portion is not an integer
Malformed(line) == Find(line, ",") = 0 \/ ~ToInt(CodePortion(line)).ok

\* a well-formed line whose code is a member of SCPIErrors
WellFormedKnown(line) ==
    ~Malformed(line) /\ IsSCPIErrorCode(ToInt(CodePortion(line)).val)

\* a well-formed line whose code is 0
IsNoErrorLine(line) == ~Malformed(line) /\ ToInt(CodePortion(line)).val = 0

\* the (code, message) entry a well-formed line with a known code stands for
EntryOf(line) ==
    <<SCPIErrors(ToInt(CodePortion(line)).val), parse_system_error(line).message>>

AllWellFormedKnown(rs) == \A k \in 1..Len(rs) : WellFormedKnown(rs[k])

HasNoError(rs) == \E k \in 1..Len(rs) : IsNoErrorLine(rs[k])

FirstNoError(rs) ==
    CHOOSE k \in 1..Len(rs) :
        IsNoErrorLine(rs[k]) /\ \A j \in 1..(k - 1) : ~IsNoErrorLine(rs[j])

OnlyErrorQueries(cmds) == \A k \in 1..Len(cmds) : cmds[k] = "SYSTEM:ERROR?"

\* C1: when every response is well-formed with a known code and the first
\* NO_ERROR response is the k-th one, the call ends after exactly k
\* SYSTEM:ERROR? queries with the first k parsed (code, message) entries
\* collected in the order read, the last one NO_ERROR and none before it; in
\* the success case (raise_on_error false, or NO_ERROR the only entry) the call
\* returns exactly these entries.  While the loop runs no NO_ERROR was read.
C1_DrainReturnsEntriesUpToNoError ==
    /\ pc = "drain_loop" => ~HasNoError(reads) /\ Len(reads) < max_reads
    /\ (pc = "done" /\ max_reads > 0 /\ AllWellFormedKnown(reads)
            /\ HasNoError(reads)) =>
          LET k == FirstNoError(reads)
          IN  /\ k = Len(reads)
              /\ k <= max_reads
              /\ Len(sent) = k
              /\ OnlyErrorQueries(sent)
              /\ entries = [j \in 1..k |-> EntryOf(reads[j])]
              /\ entries[k][1] = NO_ERROR
              /\ \A j \in 1..(k - 1) : entries[j][1] # NO_ERROR
              /\ (~raise_on_error \/ k = 1) => outcome = Return(entries)

\* C1 witness: the responses -101, "I" and 0, "N" with raise_on_error false:
\* both entries are returned, in order
C1_Witness ==
    /\ pc = "done"
    /\ ~raise_on_error
    /\ reads = <<LineInvalidCharacter, LineNoError>>
    /\ Len(sent) = 2
    /\ outcome = Return(<<
          <<[name |-> "INVALID_CHARACTER", value |-> 0 - 101], <<"I">>>>,
          <<[name |-> "NO_ERROR", value |-> 0], <<"N">>>> >>)

RECURSIVE ExpectedDetails(_)
ExpectedDetails(rs) ==
    IF rs = <<>> THEN <<>>
    ELSE IF IsNoErrorLine(Head(rs)) THEN ExpectedDetails(Tail(rs))
    ELSE <<<<EntryOf(Head(rs))[1].value, EntryOf(Head(rs))[2]>>>>
            \o ExpectedDetails(Tail(rs))

ActiveErrorsMessage == "SCPI error queue contains active errors"

\* C2: with raise_on_error set, a drain that read a non-NO_ERROR entry before
\* the terminating NO_ERROR fails with the aggregate error, whose message
\* lists every non-NO_ERROR (code, message) pair in queue order; the aggregate
\* error is raised only once the terminating NO_ERROR has been read, as the
\* last line read; when NO_ERROR is the only entry the call returns normally.
C2_AggregateErrorAfterFullDrain ==
    /\ (pc = "done" /\ raise_on_error /\ max_reads > 0
            /\ AllWellFormedKnown(reads) /\ HasNoError(reads)
            /\ Len(reads) > 1) =>
          /\ outcome.kind = "raise"
          /\ outcome.exc = "SCPICommandError"
          /\ outcome.msg = ActiveErrorsMessage
          /\ outcome.details = ExpectedDetails(reads)
          /\ Len(outcome.details) = Len(reads) - 1
          /\ IsNoErrorLine(reads[Len(reads)])
          /\ Len(sent) = Len(reads)
    /\ outcome.msg = ActiveErrorsMessage =>
          /\ raise_on_error
          /\ pc = "done"
          /\ reads # <<>>
          /\ IsNoErrorLine(reads[Len(reads)])
          /\ \A k \in 1..(Len(reads) - 1) : ~IsNoErrorLine(reads[k])
    /\ (pc = "done" /\ raise_on_error /\ max_reads > 0 /\ Len(reads) = 1
            /\ IsNoErrorLine(reads[1])) =>
          outcome = Return(<<EntryOf(reads[1])>>)

\* C2 witness: two errors then NO_ERROR under raise_on_error: the aggregate
\* error names both, in queue order
C2_Witness ==
    /\ pc = "done"
    /\ raise_on_error
    /\ reads = <<LineInvalidCharacter, LineOutOfRange, LineNoError>>
    /\ outcome.kind = "raise"
    /\ outcome.msg = ActiveErrorsMessage
    /\ outcome.details = << <<0 - 101, <<"I">>>>, <<0 - 222, <<"D">>>> >>

NotTerminatedMessage ==
    "SYSTEM:ERROR queue did not terminate with NO_ERROR within max_reads reads"

\* C3: when none of the first max_reads responses (all well-formed, known
\* codes) is NO_ERROR, the call fails with the 'queue did not terminate'
\* error, whatever raise_on_error is; and a call never returns a list that
\* does not end with NO_ERROR.
C3_ReadBudgetExhaustedFails ==
    /\ (pc = "done" /\ max_reads > 0 /\ Len(reads) = max_reads
            /\ AllWellFormedKnown(reads) /\ ~HasNoError(reads)) =>
          /\ outcome.kind = "raise"
          /\ outcome.exc = "SCPICommandError"
          /\ outcome.msg = NotTerminatedMessage
    /\ outcome.kind = "return" =>
          /\ outcome.value # <<>>
          /\ outcome.value[Len(outcome.value)][1] = NO_ERROR
          /\ Len(outcome.value) = Len(reads)

\* C3 witness: max_reads = 1, raise_on_error set, and a first response that
\* is not NO_ERROR
C3_Witness ==
    /\ pc = "done"
    /\ max_reads = 1
    /\ raise_on_error
    /\ reads = <<LineInvalidCharacter>>
    /\ outcome.kind = "raise"
    /\ outcome.msg = NotTerminatedMessage

\* C4: a malformed line (no comma, or a code portion that is no integer) is
\* the last line the call reads: the call ends there with the parse error,
\* not the aggregate one, no query follows, nothing is returned, and the line
\* adds no entry.
C4_MalformedLineAborts ==
    \A k \in 1..Len(reads) :
        Malformed(reads[k]) =>
            /\ k = Len(reads)
            /\ pc = "done"
            /\ Len(sent) = k
            /\ outcome.kind = "raise"
            /\ outcome.exc = "BristolParseError"
            /\ outcome.msg \in {"missing comma", "code"}
            /\ outcome.value = <<>>
            /\ outcome.details = <<>>
            /\ Len(entries) = k - 1

\* C4 witness: under raise_on_error, an error entry followed by a line whose
\* code portion is no integer
C4_Witness ==
    /\ pc = "done"
    /\ raise_on_error
    /\ reads = <<LineInvalidCharacter, LineBadCode>>
    /\ outcome.exc = "BristolParseError"
    /\ entries = <<EntryOf(LineInvalidCharacter)>>

\* C4 witness of the other malformed shape: a line without a comma
C4_WitnessNoComma ==
    /\ pc = "done"
    /\ reads = <<LineNoComma>>
    /\ outcome.exc = "BristolParseError"
    /\ outcome.msg = "missing comma"

\* C5: a call with max_reads <= 0 fails at once with the invalid-argument
\* error (ValueError) and issues no query, for either value of raise_on_error.
C5_NonPositiveMaxReadsRejected ==
    (pc # "idle" /\ max_reads <= 0) =>
        /\ pc = "done"
        /\ outcome = Raise("ValueError", "max_reads must be > 0", <<>>)
        /\ sent = <<>>
        /\ reads = <<>>
        /\ entries = <<>>

\* C5 witness: max_reads = 0 with raise_on_error set
C5_Witness ==
    /\ pc = "done"
    /\ max_reads = 0
    /\ raise_on_error
    /\ outcome.exc = "ValueError"
    /\ sent = <<>>

\* C6: when the drain reads a well-formed entry whose code is no member of
\* SCPIErrors, it fails with the parse-error kind that convert_system_error
\* raises for the same line.
C6_UnknownCodeOneErrorSurface ==
    (pc = "done" /\ reads # <<>> /\ ~Malformed(reads[Len(reads)])
        /\ ~IsSCPIErrorCode(ToInt(CodePortion(reads[Len(reads)])).val)) =>
        /\ outcome.kind = "raise"
        /\ convert_system_error(reads[Len(reads)]).exc
              \in ExceptionClasses(outcome.exc)

(***************************************************************************)
(* Properties of the registers.                                            *)
(***************************************************************************)
\* the fault-bit indices of a register, as a set
FaultBitSet(r) == {r.fault_bits[k] : k \in 1..Len(r.fault_bits)}

\* the indices below the register's size whose bit is set in its value
SetBitSet(r) == {i \in 0..(r.size - 1) : BitOf(r.value, i) = 1}

SeqToSet(t) == {t[k] : k \in 1..Len(t)}

Returned(op) == reg_pc = "returned" /\ reg_ret.op = op

\* C7: is_ok is true exactly when none of the register's fault bits is set
\* in its value.
C7_IsOkIffNoFaultBitSet ==
    Returned("is_ok") =>
        /\ reg_ret.result.exc = "None"
        /\ reg_ret.result.val = 1 <=> (SetBitSet(reg) \cap FaultBitSet(reg) = {})

\* C8: faults is the set of bit indices that are set in the value and are
\* fault bits of the register; it is empty without fault bits.
C8_FaultsIsSetBitsInFaultBits ==
    Returned("faults") =>
        /\ reg_ret.result.exc = "None"
        /\ SeqToSet(reg_ret.result.bits) = SetBitSet(reg) \cap FaultBitSet(reg)

\* C9: for a value below 2^size, get_set_values returns the names of exactly
\* the set bits that have a name in the register's enumeration; a set bit
\* without a name is left out and raises nothing.
C9_SetValuesOmitUnnamedBits ==
    (Returned("get_set_values") /\ reg.value < Pow2(reg.size)) =>
        /\ reg_ret.result.exc = "None"
        /\ SeqToSet(reg_ret.result.names) =
              {m.name : m \in {n \in EnumMembers(reg.enum) :
                                  n.value \in SetBitSet(reg)}}

\* C10: set_value and get_value with a member of another enumeration than
\* the register's own fail and leave the register value unchanged.
C10_ForeignMemberRejected ==
    ((Returned("set_value") \/ Returned("get_value"))
        /\ reg_ret.arg.cls # reg.enum) =>
        /\ reg_ret.result.exc # "None"
        /\ reg.value = reg_ret.before

\* C11: set_bit(index, 1) leaves bit index set and set_bit(index, 0) leaves
\* it clear; with a bit value that is neither 0 nor 1 the call fails with
\* the invalid-argument error (a ValueError) and the value is unchanged.
C11_SetBitValidatesBitValue ==
    Returned("set_bit") =>
        /\ reg_ret.bit_value = 1 =>
              /\ reg_ret.result.exc = "None"
              /\ BitOf(reg.value, reg_ret.arg.value) = 1
        /\ reg_ret.bit_value = 0 =>
              /\ reg_ret.result.exc = "None"
              /\ BitOf(reg.value, reg_ret.arg.value) = 0
        /\ reg_ret.bit_value \notin {0, 1} =>
              /\ "ValueError" \in ExceptionClasses(reg_ret.result.exc)
              /\ reg.value = reg_ret.before

\* the bit indices that have a name in the register's enumeration
NamedBitSet(r) == {m.value : m \in EnumMembers(r.enum)}

\* C12: a register built by one of the four constructors has the width and
\* fault bits of its variant: 8 and {2,3,4,5} for the event-status-enable and
\* event-status registers, 6 and {3} for the instrument status byte, 11 and
\* {0,3,4,5,9,10} for the questionable-status register; each fault bit is a
\* named bit of the variant's enumeration and each named bit is below the
\* width.
C12_ConstructorsFixWidthAndFaultBits ==
    reg.has_fault_bits =>
        /\ reg.enum \in {"EventStatusEnableBits", "EventStatusBits"} =>
              reg.size = 8 /\ FaultBitSet(reg) = {2, 3, 4, 5}
        /\ reg.enum = "InstrumentStatusBits" =>
              reg.size = 6 /\ FaultBitSet(reg) = {3}
        /\ reg.enum = "QuestionableStatusBits" =>
              reg.size = 11 /\ FaultBitSet(reg) = {0, 3, 4, 5, 9, 10}
        /\ FaultBitSet(reg) \subseteq NamedBitSet(reg)
        /\ \A i \in NamedBitSet(reg) : 0 <= i /\ i < reg.size

\* C12 witness: a questionable-status register built from a value with bits
\* 0 and 10 set, after a call was made on it
C12_Witness ==
    /\ reg = QuestionableStatusRegister(1025)
    /\ reg.size = 11
    /\ Returned("get_set_bits")
    /\ reg_ret.result.bits = <<0, 10>>

(***************************************************************************)
(* The conversion functions.                                               *)
(***************************************************************************)
\* the call of fn was made, and conv_ret holds what it returned or raised
ConvReturned(fn) == conv_ret.fn = fn

\* the numbers of the environment lines and the values they denote
EnvNumberValues ==
    {<<<<"2", ".", "5">>, [num |-> 25, exp |-> 0 - 1]>>,
     <<<<"-", "7">>, [num |-> 0 - 7, exp |-> 0]>>}

\* "<t><gap>C, <p><gap>MMHG" with padding around the two fields
EnvLine(t, gapT, p, gapP, pad) ==
    pad \o t \o gapT \o <<"C">> \o pad \o <<",">>
        \o pad \o p \o gapP \o <<"M", "M", "H", "G">> \o pad

\* C13: for every temperature t and pressure p, a line "t C, p MMHG" with the
\* suffix separated from the number by whitespace, and a line "tC, pMMHG"
\* with the suffix adjacent to the number, with any whitespace around the
\* fields, both parse to Environment(t, p).
C13_EnvironmentAcceptsBothLayouts ==
    \A t \in EnvNumberValues, p \in EnvNumberValues, gapT \in Padding,
       gapP \in Padding, pad \in Padding :
        (/\ ConvReturned("convert_environment_to_environment_data")
         /\ conv_call.arg = EnvLine(t[1], gapT, p[1], gapP, pad))
            => /\ conv_ret.result.exc = "None"
               /\ conv_ret.result.value = [temperature |-> t[2], pressure |-> p[2]]

\* the number of comma-separated fields of a line
FieldCount(line) == Cardinality({k \in 1..Len(line) : line[k] = ","}) + 1

\* the k-th comma-separated field of a line, k in 1..FieldCount(line): the
\* text between the commas number k - 1 and k
FieldAt(line, k) ==
    LET commas == {i \in 1..Len(line) : line[i] = ","}
        before(i) == Cardinality({j \in commas : j < i})
        first == IF k = 1 THEN 0 ELSE CHOOSE i \in commas : before(i) = k - 2
        last == IF k = FieldCount(line) THEN Len(line) + 1
                ELSE CHOOSE i \in commas : before(i) = k - 1
    IN  SubSeq(line, first + 1, last - 1)

\* a field that is a number, then possibly whitespace, then a unit suffix,
\* with whitespace around it
NumberWithSuffix(field) ==
    \E t \in EnvNumberValues, gap \in Padding, suffix \in EnvSuffixes \ {<<>>},
       left \in Padding, right \in Padding :
        field = left \o t[1] \o gap \o suffix \o right

EnvironmentMalformed(line) ==
    \/ FieldCount(line) # 2
    \/ \E k \in 1..2 : ~NumberWithSuffix(FieldAt(line, k))

\* C14: a malformed environment line is rejected with a parse error that
\* carries the raw line, and no Environment is returned for it: a line whose
\* field count is not 2, or with a field that is not a float followed by a
\* unit suffix (a number alone, an empty field, a field without a number).
C14_EnvironmentRejectsMalformed ==
    (/\ ConvReturned("convert_environment_to_environment_data")
     /\ EnvironmentMalformed(conv_call.arg))
        => /\ conv_ret.result.exc = "BristolParseError"
           /\ conv_ret.result.raw = conv_call.arg

\* the index of the first comma of a line, 0 when it has none
FirstComma(line) ==
    IF \E i \in 1..Len(line) : line[i] = ","
    THEN CHOOSE i \in 1..Len(line) :
            line[i] = "," /\ \A j \in 1..(i - 1) : line[j] # ","
    ELSE 0

\* the text before the first comma and the text after it
BeforeComma(line) == SubSeq(line, 1, FirstComma(line) - 1)
AfterComma(line) == SubSeq(line, FirstComma(line) + 1, Len(line))

\* the text without the blanks at its two ends
Trimmed(text) ==
    LET inner == {i \in 1..Len(text) : text[i] # " "}
    IN  IF inner = {} THEN <<>>
        ELSE SubSeq(text, CHOOSE i \in inner : \A j \in inner : i <= j,
                          CHOOSE i \in inner : \A j \in inner : j <= i)

\* a signed integer: an optional minus sign, then one decimal digit or more
SignedInteger(text) ==
    LET digits == IF text # <<>> /\ text[1] = "-" THEN Tail(text) ELSE text
    IN  /\ digits # <<>>
        /\ \A i \in 1..Len(digits) : \E d \in 0..9 : digits[i] = DigitChars[d + 1]

RECURSIVE DigitsSum(_)
DigitsSum(digits) ==
    IF digits = <<>> THEN 0
    ELSE 10 * DigitsSum(SubSeq(digits, 1, Len(digits) - 1))
            + (CHOOSE d \in 0..9 : digits[Len(digits)] = DigitChars[d + 1])

SignedIntegerValue(text) ==
    IF text[1] = "-" THEN 0 - DigitsSum(Tail(text)) ELSE DigitsSum(text)

\* message is a stretch of text, and what text has around it are blanks and
\* double quotes only
BuiltFrom(message, text) ==
    \E i \in 1..(Len(text) + 1) :
        /\ i + Len(message) - 1 <= Len(text)
        /\ message = SubSeq(text, i, i + Len(message) - 1)
        /\ \A j \in (1..(i - 1)) \cup ((i + Len(message))..Len(text)) :
              text[j] \in {" ", "\""}

\* the number of commas of a text
Commas(text) == Cardinality({i \in 1..Len(text) : text[i] = ","})

\* C15: parse_system_error splits at the first comma only.  A line with a
\* comma and a signed integer, possibly between blanks, before the first
\* comma gives the value of that integer and a message built from all the
\* text after the first comma, the later commas in it; a line without a
\* comma fails with a parse error, and so does a line whose text before the
\* first comma is not a signed integer.
C15_SplitsOnFirstCommaOnly ==
    ConvReturned("parse_system_error") =>
        LET line == conv_call.arg
            code == Trimmed(BeforeComma(line))
            result == conv_ret.result
        IN  /\ FirstComma(line) = 0 => result.exc = "BristolParseError"
            /\ (FirstComma(line) # 0 /\ ~SignedInteger(code)) =>
                  result.exc = "BristolParseError"
            /\ (FirstComma(line) # 0 /\ SignedInteger(code)) =>
                  /\ result.exc = "None"
                  /\ result.code = SignedIntegerValue(code)
                  /\ BuiltFrom(result.message, AfterComma(line))
                  /\ Commas(result.message) = Commas(AfterComma(line))

\* C15 witness: the line '-1,a,a' parsed to the code -1 and the message 'a,a'
C15_Witness ==
    /\ ConvReturned("parse_system_error")
    /\ conv_call.arg = <<"-", "1", ",", "a", ",", "a">>
    /\ conv_ret.result.exc = "None"
    /\ conv_ret.result.code = 0 - 1
    /\ conv_ret.result.message = <<"a", ",", "a">>

\* the text without one pair of double quotes around it, when it has one
OneLayerUnquoted(text) ==
    IF Len(text) >= 2 /\ text[1] = "\"" /\ text[Len(text)] = "\""
    THEN SubSeq(text, 2, Len(text) - 1)
    ELSE text

\* C16: the message that parse_system_error returns is the text after the
\* first comma, trimmed, with exactly one layer of surrounding double quotes
\* removed when it has one; the quotes within that layer are kept.
C16_MessageLosesOneQuoteLayer ==
    (ConvReturned("parse_system_error") /\ conv_ret.result.exc = "None") =>
        conv_ret.result.message
            = OneLayerUnquoted(Trimmed(AfterComma(conv_call.arg)))

\* the nine codes and the names of their members
NineCodes ==
    {<<0, "NO_ERROR">>, <<0 - 101, "INVALID_CHARACTER">>,
     <<0 - 102, "SYNTAX_ERROR">>, <<0 - 103, "INVALID_SEPARATOR">>,
     <<0 - 104, "DATA_TYPE_ERROR">>, <<0 - 220, "PARAMETER_ERROR">>,
     <<0 - 221, "SETTINGS_CONFLICT">>, <<0 - 222, "DATA_OUT_OF_RANGE">>,
     <<0 - 230, "DATA_CORRUPT_OR_STALE">>}

\* the text of the code of a line: what is before the first comma, or the
\* line when it has no comma, trimmed
CodeText(line) ==
    Trimmed(IF FirstComma(line) = 0 THEN line ELSE BeforeComma(line))

\* C17: convert_system_error maps each of the nine codes to its member and
\* fails with a parse error for every other integer code; it returns no
\* member for a code that is not one of the nine.
C17_ErrorCodeLookupClosed ==
    (ConvReturned("convert_system_error") /\ SignedInteger(CodeText(conv_call.arg)))
        => LET code == SignedIntegerValue(CodeText(conv_call.arg))
               result == conv_ret.result
           IN  /\ \A pair \in NineCodes :
                     code = pair[1] =>
                        /\ result.exc = "None"
                        /\ result.member.name = pair[2]
                        /\ result.member.value = code
               /\ (\A pair \in NineCodes : code # pair[1]) =>
                     result.exc = "BristolParseError"
               /\ result.exc = "None" => \E pair \in NineCodes : code = pair[1]

\* C17 witness: the code -222 looked up
C17_Witness ==
    /\ ConvReturned("convert_system_error")
    /\ conv_call.arg = <<"-", "2", "2", "2", ",", "a">>
    /\ conv_ret.result.exc = "None"
    /\ conv_ret.result.member.name = "DATA_OUT_OF_RANGE"

\* what each field of a scan record is worth as an int and as a float
AllFieldInts == {<<<<"1", "2">>, 12>>, <<<<" ", "0", " ">>, 0>>}

AllFieldFloats ==
    {<<<<"1", "2">>, [num |-> 12, exp |-> 0]>>,
     <<<<" ", "0", " ">>, [num |-> 0, exp |-> 0]>>,
     <<<<"1", ".", "5">>, [num |-> 15, exp |-> 0 - 1]>>}

\* the first two fields are integers and the next two floats
AllCoerces(line) ==
    /\ \A k \in 1..2 : \E pair \in AllFieldInts : FieldAt(line, k) = pair[1]
    /\ \A k \in 3..4 : \E pair \in AllFieldFloats : FieldAt(line, k) = pair[1]

IntOfField(field) == (CHOOSE pair \in AllFieldInts : pair[1] = field)[2]
FloatOfField(field) == (CHOOSE pair \in AllFieldFloats : pair[1] = field)[2]

\* C18: a line of exactly four fields that coerce to int, int, float, float
\* parses to WavemeterData of the four in that order; every other line fails
\* with a parse error that carries the raw line, and a line whose field count
\* is not four fails at the count, before a field is coerced.
C18_ScanRecordParsing ==
    ConvReturned("convert_all_to_bristol_data") =>
        LET line == conv_call.arg
            result == conv_ret.result
        IN  /\ (FieldCount(line) = 4 /\ AllCoerces(line)) =>
                  /\ result.exc = "None"
                  /\ result.value =
                        [scan_index |-> IntOfField(FieldAt(line, 1)),
                         instrument_status |-> IntOfField(FieldAt(line, 2)),
                         wavelength |-> FloatOfField(FieldAt(line, 3)),
                         power |-> FloatOfField(FieldAt(line, 4))]
            /\ ~(FieldCount(line) = 4 /\ AllCoerces(line)) =>
                  /\ result.exc = "BristolParseError"
                  /\ result.raw = line
            /\ FieldCount(line) # 4 => result.cause = "BristolParseError"
            /\ (FieldCount(line) = 4 /\ ~AllCoerces(line)) =>
                  result.cause = "ValueError"

\* C18 witness: the line '12, 0 ,1.5,12' parsed to WavemeterData(12, 0, 1.5, 12)
C18_Witness ==
    /\ ConvReturned("convert_all_to_bristol_data")
    /\ conv_call.arg = <<"1", "2", ",", " ", "0", " ", ",", "1", ".", "5", ",",
                         "1", "2">>
    /\ conv_ret.result.exc = "None"
    /\ conv_ret.result.value.scan_index = 12
    /\ conv_ret.result.value.wavelength = [num |-> 15, exp |-> 0 - 1]

\* the failing case of C18: five fields, the first four of which coerce,
\* refused at the count
C18_WitnessCount ==
    /\ ConvReturned("convert_all_to_bristol_data")
    /\ conv_call.arg = <<"1", "2", ",", "1", "2", ",", "1", "2", ",", "1", "2",
                         ",", "x">>
    /\ conv_ret.result.exc = "BristolParseError"
    /\ conv_ret.result.cause = "BristolParseError"

\* token occurs in message
Names(message, token) ==
    \E i \in 1..(Len(message) + 1) :
        /\ i + Len(token) - 1 <= Len(message)
        /\ SubSeq(message, i, i + Len(token) - 1) = token

C20_PowerRequiresPowerUnit ==
    (ConvReturned("convert_to_unit") /\ conv_call.data = "POWER") =>
        LET result == conv_ret.result
        IN  /\ conv_call.power_unit = "None" =>
                  /\ result.exc = "ValueError"
                  /\ result.steps = <<>>
                  /\ result.tagged = NoQuantity
            /\ conv_call.power_unit = "dBm" =>
                  /\ result.steps = <<"dBm_to_mW", "tag", "to">>
                  /\ \E k \in (0 - MaxDecades)..MaxDecades :
                        /\ conv_call.value = Dec(10 * k, 0)
                        /\ result.tagged
                              = [magnitude |-> [num |-> 1, exp |-> k],
                                 unit |-> "milliwatt"]
            /\ conv_call.power_unit = "mW" =>
                  /\ result.steps = <<"tag", "to">>
                  /\ result.tagged
                        = [magnitude |-> conv_call.value, unit |-> "milliwatt"]

\* C20 witness: 20 dBm converted to watt: 100 mW first, then 0.1 W
C20_Witness ==
    /\ ConvReturned("convert_to_unit")
    /\ conv_call.data = "POWER"
    /\ conv_call.power_unit = "dBm"
    /\ conv_call.value = [num |-> 2, exp |-> 1]
    /\ conv_call.unit = "watt"
    /\ conv_ret.result.tagged.magnitude = [num |-> 1, exp |-> 2]
    /\ conv_ret.result.value = [magnitude |-> [num |-> 1, exp |-> 0 - 1],
                                unit |-> "watt"]

\* the failing case of C20: POWER data without a power unit
C20_WitnessAbsent ==
    /\ ConvReturned("convert_to_unit")
    /\ conv_call.data = "POWER"
    /\ conv_call.power_unit = "None"
    /\ conv_ret.result.exc = "ValueError"
    /\ conv_ret.result.text
          = "power_unit must be provided when converting power data"

(***************************************************************************)
(* The read budget of the drain, the locality of bit updates, and the two  *)
(* parsers of a system-error line side by side.                            *)
(***************************************************************************)
\* the responses before the last one are well-formed entries of known errors
\* other than NO_ERROR, and the last one is a NO_ERROR entry
EndsAtFirstNoError(rs) ==
    /\ rs # <<>>
    /\ IsNoErrorLine(rs[Len(rs)])
    /\ \A k \in 1..(Len(rs) - 1) : WellFormedKnown(rs[k]) /\ ~IsNoErrorLine(rs[k])

\* C28: a call of drain_error_queue with max_reads > 0 issues at most
\* max_reads SYSTEM:ERROR? queries, however it ends; and when the first
\* NO_ERROR entry is the max_reads-th response the drain is complete: the call
\* does not fail with 'queue did not terminate', and it returns max_reads
\* entries (unless raise_on_error turns the errors before it into the
\* aggregate failure).
C28_ReadBudgetInclusive ==
    (pc # "idle" /\ max_reads > 0) =>
        /\ Len(sent) <= max_reads
        /\ Len(reads) = Len(sent)
        /\ OnlyErrorQueries(sent)
        /\ (pc = "done" /\ Len(reads) = max_reads /\ EndsAtFirstNoError(reads)) =>
              /\ outcome.msg # NotTerminatedMessage
              /\ Len(entries) = max_reads
              /\ (~raise_on_error \/ max_reads = 1) =>
                    outcome.kind = "return" /\ Len(outcome.value) = max_reads

\* C28 witness: with max_reads at its bound, the last read allowed was the
\* first NO_ERROR entry and the call returned max_reads entries
C28_Witness ==
    /\ pc = "done"
    /\ max_reads = MaxReads
    /\ Len(sent) = MaxReads
    /\ EndsAtFirstNoError(reads)
    /\ outcome.kind = "return"
    /\ Len(outcome.value) = MaxReads

\* the bits of a value below the width
InRange(value, size) == 0 <= value /\ value < Pow2(size)

\* C29: a set_bit(i, b) with 0 <= i < width and b in {0, 1}, on a value in
\* the range of the width, leaves a value in that range in which bit i is b
\* and every other bit is what it was; get_bit(i) then returns b, and i is
\* among get_set_bits() exactly when b is 1.
C29_SetBitLocalAndInRange ==
    (/\ Returned("set_bit")
     /\ reg_ret.bit_value \in {0, 1}
     /\ InRange(reg_ret.before, reg.size))
        => LET i == reg_ret.arg.value
               b == reg_ret.bit_value
           IN  /\ reg_ret.result.exc = "None"
               /\ InRange(reg.value, reg.size)
               /\ \A j \in 0..(reg.size - 1) :
                     j # i => BitOf(reg.value, j) = BitOf(reg_ret.before, j)
               /\ get_bit(reg, i).val = b
               /\ (i \in SeqToSet(get_set_bits(reg))) <=> (b = 1)

\* C29 witness: bit 2 set in an 8-bit register that held 251, now 255
C29_Witness ==
    /\ Returned("set_bit")
    /\ reg.size = 8
    /\ reg_ret.before = 251
    /\ reg_ret.arg.value = 2
    /\ reg_ret.bit_value = 1
    /\ reg.value = 255

\* C30: convert_system_error succeeds on a line exactly when
\* parse_system_error succeeds on it with a code that is a member of
\* SCPIErrors, and the member it returns has that code; both reject a line
\* without a comma.
C30_ParsersAgree ==
    ConvReturned("convert_system_error") =>
        LET parsed == parse_system_error(conv_call.arg)
            result == conv_ret.result
        IN  /\ (result.exc = "None")
                  <=> (parsed.exc = "None" /\ IsSCPIErrorCode(parsed.code))
            /\ result.exc = "None" => result.member.value = parsed.code
            /\ FirstComma(conv_call.arg) = 0 =>
                  result.exc # "None" /\ parsed.exc # "None"

(***************************************************************************)
(* The commands, the setters, the with-block and the error properties.     *)
(***************************************************************************)
\* the command methods and the command each one stands for
CommandMethods ==
    {<<"clear_status", "*CLS">>, <<"CLS", "*CLS">>,
     <<"restore_state", "*RCL">>, <<"RCL", "*RCL">>,
     <<"reset", "*RST">>, <<"RST", "*RST">>,
     <<"save_state", "*SAV">>, <<"SAV", "*SAV">>}

IsCommandMethod(op) == \E pair \in CommandMethods : pair[1] = op
CommandOf(op) == (CHOOSE pair \in CommandMethods : pair[1] = op)[2]

\* the calls made so far are all among ops
OnlyCalls(ops) == \A k \in 1..Len(drv_calls) : drv_calls[k].op \in ops

\* the number of calls of op made so far
CallCount(op) == Cardinality({k \in 1..Len(drv_calls) : drv_calls[k].op = op})

\* C24: after any sequence of calls of the eight command methods, what went
\* over the transport is one write for each call, in the order of the calls:
\* '*CLS' for clear_status and CLS, '*RCL' for restore_state and RCL, '*RST'
\* for reset and RST, '*SAV' for save_state and SAV; nothing else is
\* written, no query is issued, and every call returns.
C24_CommandsWriteInOrder ==
    (\A k \in 1..Len(drv_calls) : IsCommandMethod(drv_calls[k].op)) =>
        /\ Len(io) = Len(drv_calls)
        /\ \A k \in 1..Len(drv_calls) :
              /\ io[k].kind = "write"
              /\ io[k].cmd = CommandOf(drv_calls[k].op)
              /\ drv_calls[k].ret.exc = "None"

\* C24 witness: clear_status, RST, save_state called, in that order
C24_Witness ==
    /\ Len(drv_calls) = 3
    /\ drv_calls[1].op = "clear_status"
    /\ drv_calls[2].op = "RST"
    /\ drv_calls[3].op = "save_state"
    /\ io = <<Written("*CLS"), Written("*RST"), Written("*SAV")>>

\* the commands of the bytes assigned to ESE
ESECommands == {<<0, "*ESE 0">>, <<255, "*ESE 255">>}

\* an assignment that the setters must refuse: ESE outside [0, 255],
\* average_count not above 0
Rejected(call) ==
    /\ call.arg.type = "int"
    /\ \/ call.op = "ESE" /\ (call.arg.value < 0 \/ call.arg.value > 255)
       \/ call.op = "average_count" /\ call.arg.value <= 0

\* an assignment of a byte to ESE
ByteToESE(call) ==
    /\ call.op = "ESE"
    /\ call.arg.type = "int"
    /\ 0 <= call.arg.value /\ call.arg.value <= 255

\* the assignments of bytes to ESE among the calls, their positions in order
RECURSIVE BytesToESE(_)
BytesToESE(calls) ==
    IF calls = <<>> THEN <<>>
    ELSE IF ByteToESE(calls[Len(calls)])
    THEN Append(BytesToESE(SubSeq(calls, 1, Len(calls) - 1)), calls[Len(calls)])
    ELSE BytesToESE(SubSeq(calls, 1, Len(calls) - 1))

\* C25: an assignment of a value outside [0, 255] to ESE, or of a value <= 0
\* to average_count, fails with SCPICommandError and sends nothing; an
\* assignment of a byte v to ESE writes the one command '*ESE v'.  So after
\* any sequence of such assignments the transport holds the '*ESE v' of the
\* accepted ones, in order, whatever was rejected among them.
C25_SettersValidateBeforeWrite ==
    (\A k \in 1..Len(drv_calls) : Rejected(drv_calls[k]) \/ ByteToESE(drv_calls[k]))
        => /\ \A k \in 1..Len(drv_calls) :
                 IF Rejected(drv_calls[k])
                 THEN drv_calls[k].ret.exc = "SCPICommandError"
                 ELSE drv_calls[k].ret.exc = "None"
           /\ Len(io) = Len(BytesToESE(drv_calls))
           /\ \A k \in 1..Len(io) :
                 /\ io[k].kind = "write"
                 /\ \E pair \in ESECommands :
                       /\ pair[1] = BytesToESE(drv_calls)[k].arg.value
                       /\ pair[2] = io[k].cmd

\* C25 witness: ESE = 256 was refused, average_count = 0 was refused, and
\* ESE = 255 after them was written
C25_Witness ==
    /\ Len(drv_calls) = 3
    /\ drv_calls[1].op = "ESE" /\ drv_calls[1].arg.value = 256
    /\ drv_calls[1].ret.exc = "SCPICommandError"
    /\ drv_calls[2].op = "average_count" /\ drv_calls[2].arg.value = 0
    /\ drv_calls[2].ret.exc = "SCPICommandError"
    /\ drv_calls[3].op = "ESE" /\ drv_calls[3].arg.value = 255
    /\ io = <<Written("*ESE 255")>>

\* C26: __enter__ gives the object itself; each __exit__ calls close once
\* when the object has a callable close, whether the block ended normally or
\* by an exception, and calls nothing otherwise; the exception of the block
\* leaves the with statement, and a block that ended normally leaves none.
C26_ContextManagerCloses ==
    /\ \A k \in 1..Len(drv_calls) :
          /\ drv_calls[k].op = "__enter__" =>
                drv_calls[k].ret.exc = "None" /\ drv_calls[k].ret.value = <<"self">>
          /\ drv_calls[k].op = "__exit__" =>
                drv_calls[k].ret.exc = drv_calls[k].arg.name
    /\ meter.close = "callable" => meter.closed = CallCount("__exit__")
    /\ meter.close # "callable" => meter.closed = 0
    /\ io = <<>> \/ \E k \in 1..Len(drv_calls) :
                        drv_calls[k].op \notin {"__enter__", "__exit__"}

\* C26 witness: a with-block that ended by an exception; close was called
\* once and the exception left the with statement
C26_Witness ==
    /\ Len(drv_calls) = 2
    /\ drv_calls[1].op = "__enter__"
    /\ drv_calls[2].op = "__exit__"
    /\ drv_calls[2].arg.name = "RuntimeError"
    /\ meter.close = "callable"
    /\ meter.closed = 1
    /\ drv_ret.exc = "RuntimeError"

\* a with-block on an object whose close cannot be called: nothing is called
C26_WitnessNoClose ==
    /\ Len(drv_calls) = 2
    /\ drv_calls[2].op = "__exit__"
    /\ meter.close = "not_callable"
    /\ meter.closed = 0

\* the well-formed entries of the error queue: the line, its code, its message
QueueEntries ==
    {<<LineNoError, 0, <<"N">>>>,
     <<LineInvalidCharacter, 0 - 101, <<"I">>>>,
     <<LineInvalidCharacterAt, 0 - 101, <<"J">>>>,
     <<LineInvalidSeparator, 0 - 103, <<"I">>>>}

IsQueueEntry(line) == \E entry \in QueueEntries : entry[1] = line
EntryCode(line) == (CHOOSE entry \in QueueEntries : entry[1] = line)[2]
EntryMessage(line) == (CHOOSE entry \in QueueEntries : entry[1] = line)[3]

\* only the two error properties were read so far
OnlyErrorReads == OnlyCalls({"system_error", "system_error_message"})

\* every read of the two properties asked SYSTEM:ERROR? once: the k-th read
\* took the k-th entry off the queue
OneQueryPerRead ==
    /\ Len(io) = Len(drv_calls)
    /\ \A k \in 1..Len(io) :
          io[k].kind = "query" /\ io[k].cmd = "SYSTEM:ERROR?"

\* system_error was read at k and system_error_message right after it, both
\* from well-formed entries
CodeThenMessage(k) ==
    /\ k + 1 <= Len(drv_calls)
    /\ drv_calls[k].op = "system_error"
    /\ drv_calls[k + 1].op = "system_error_message"
    /\ IsQueueEntry(io[k].response)
    /\ IsQueueEntry(io[k + 1].response)

\* the code is that of the first of the two entries, the message that of the
\* second
TwoConsecutiveEntries(k) ==
    /\ drv_calls[k].ret.exc = "None"
    /\ drv_calls[k].ret.value.value = EntryCode(io[k].response)
    /\ drv_calls[k + 1].ret.exc = "None"
    /\ drv_calls[k + 1].ret.value = EntryMessage(io[k + 1].response)

\* the code returned at k and the message returned at k + 1 are the code and
\* the message of one of the two entries
BelongToSameEntry(k) ==
    \E j \in {k, k + 1} :
        /\ drv_calls[k].ret.value.value = EntryCode(io[j].response)
        /\ drv_calls[k + 1].ret.value = EntryMessage(io[j].response)

Dispatch ==
    {<<"FETCH", "POWER", "fetch_power", "FETCH:POWER?">>,
     <<"FETCH", "FREQUENCY", "fetch_frequency", "FETCH:FREQUENCY?">>,
     <<"FETCH", "WAVELENGTH", "fetch_wavelength", "FETCH:WAVELENGTH?">>,
     <<"FETCH", "WAVENUMBER", "fetch_wavenumber", "FETCH:WNUMBER?">>,
     <<"FETCH", "ENVIRONMENT", "fetch_environment", "FETCH:ENV?">>,
     <<"FETCH", "ALL", "fetch_all", "FETCH:ALL?">>,
     <<"READ", "POWER", "read_power", "READ:POWER?">>,
     <<"READ", "FREQUENCY", "read_frequency", "READ:FREQUENCY?">>,
     <<"READ", "WAVELENGTH", "read_wavelength", "READ:WAVELENGTH?">>,
     <<"READ", "WAVENUMBER", "read_wavenumber", "READ:WNUMBER?">>,
     <<"READ", "ENVIRONMENT", "read_environment", "READ:ENV?">>,
     <<"READ", "ALL", "read_all", "READ:ALL?">>,
     <<"MEASURE", "POWER", "measure_power", "MEASURE:POWER?">>,
     <<"MEASURE", "FREQUENCY", "measure_frequency", "MEASURE:FREQUENCY?">>,
     <<"MEASURE", "WAVELENGTH", "measure_wavelength", "MEASURE:WAVELENGTH?">>,
     <<"MEASURE", "WAVENUMBER", "measure_wavenumber", "MEASURE:WNUMBER?">>,
     <<"MEASURE", "ENVIRONMENT", "measure_environment", "MEASURE:ENV?">>,
     <<"MEASURE", "ALL", "measure_all", "MEASURE:ALL?">>}

DispatchOf(args) ==
    CHOOSE row \in Dispatch :
        row[1] = args.method.name /\ row[2] = args.data.name

\* both arguments of the call are members of their Enum classes
MemberArgs(args) ==
    /\ args.data.type = "enum" /\ args.data.cls = "MeasureData"
    /\ args.method.type = "enum" /\ args.method.cls = "MeasureMethod"

\* the last call made, its arguments and how it ended
LastCall == drv_calls[Len(drv_calls)]

\* the driver methods the calls must have invoked, and the queries these
\* must have sent, when every call had unit None
RECURSIVE MethodsDue(_)
MethodsDue(calls) ==
    IF calls = <<>> THEN <<>>
    ELSE LET call == calls[Len(calls)]
             before == MethodsDue(SubSeq(calls, 1, Len(calls) - 1))
         IN  IF MemberArgs(call.arg)
             THEN Append(before, DispatchOf(call.arg))
             ELSE before

\* C22: with unit None, get_data(data, method) invokes once the driver
\* method '<method>_<data>' (lower case) for each of the 18 combinations of
\* members, that method sends its one query, and get_data returns what the
\* method returns; an argument that is not a member of MeasureData /
\* MeasureMethod ends in TypeError with nothing invoked and nothing sent.
C22_GetDataDispatch ==
    (\A k \in 1..Len(drv_calls) :
        drv_calls[k].op = "get_data" /\ drv_calls[k].arg.unit = "None")
    => LET due == MethodsDue(drv_calls)
       IN  /\ Len(invoked) = Len(due)
           /\ Len(io) = Len(due)
           /\ \A i \in 1..Len(due) :
                 /\ invoked[i].fn = due[i][3]
                 /\ HasMethod(due[i][3])
                 /\ io[i].kind = "query"
                 /\ io[i].cmd = due[i][4]
           /\ drv_calls # <<>> =>
                 IF MemberArgs(LastCall.arg)
                 THEN LET result == CallMethod(Getattr(DispatchOf(LastCall.arg)[3]),
                                               io[Len(io)].response)
                      IN  /\ LastCall.ret.exc = result.exc
                          /\ result.exc = "None" =>
                                LastCall.ret.value = result.value
                 ELSE LastCall.ret.exc = "TypeError"

\* C22 witness: get_data(WAVENUMBER, MEASURE) called measure_wavenumber,
\* which asked MEASURE:WNUMBER?, and returned the 10.0 it made of the answer
C22_Witness ==
    /\ Len(drv_calls) = 1
    /\ LastCall.arg = DataArgs(Member("MeasureData", "WAVENUMBER", 3),
                               Member("MeasureMethod", "MEASURE", 2), "None")
    /\ invoked = <<Invoked("measure_wavenumber", <<>>)>>
    /\ io = <<Queried("MEASURE:WNUMBER?", <<"1", "0">>)>>
    /\ drv_ret = DrvReturn("get_data", Dec(1, 1))

\* C22 witness: a str given as data ended in TypeError before any query
C22_WitnessTypeError ==
    /\ Len(drv_calls) = 1
    /\ LastCall.arg.data = PyStr("POWER")
    /\ drv_ret.exc = "TypeError"
    /\ io = <<>>
    /\ invoked = <<>>

\* the last call asked for a scalar kind in a unit, and measured it
ScalarInUnit ==
    /\ drv_calls # <<>>
    /\ LastCall.op = "get_data"
    /\ MemberArgs(LastCall.arg)
    /\ LastCall.arg.unit # "None"
    /\ LastCall.arg.data.name \in {"POWER", "FREQUENCY", "WAVELENGTH", "WAVENUMBER"}
    /\ LastCall.ret.exc # "ValueError"

\* the power unit the instrument's answer to UNIT:POWER? stands for
PowerUnitOf(response) ==
    CASE response = <<"D", "B", "M">> -> "dBm"
      [] response = <<"M", "W">> -> "mW"

\* the calls for POWER in a unit that measured a value
PowerInUnit ==
    {k \in 1..Len(drv_calls) :
        /\ MemberArgs(drv_calls[k].arg)
        /\ drv_calls[k].arg.data.name = "POWER"
        /\ drv_calls[k].arg.unit # "None"
        /\ drv_calls[k].ret.exc # "ValueError"}

\* C23: with a unit, get_data hands the measured value unchanged to
\* convert_to_unit with the data kind and the unit asked for; for POWER the
\* power unit is the one unit_power reads from the instrument (one
\* UNIT:POWER? query after the measurement), for FREQUENCY, WAVELENGTH and
\* WAVENUMBER it is None and UNIT:POWER? is not asked; get_data ends as the
\* conversion ends.
C23_GetDataConverts ==
    /\ Cardinality({i \in 1..Len(io) : io[i].cmd = "UNIT:POWER?"})
          = Cardinality(PowerInUnit)
    /\ ScalarInUnit =>
          LET args == LastCall.arg
              power == args.data.name = "POWER"
              measurement == IF power THEN io[Len(io) - 1] ELSE io[Len(io)]
              value == ToFloat(measurement.response).val
              power_unit ==
                  IF power THEN PowerUnitOf(io[Len(io)].response) ELSE "None"
              conversion == invoked[Len(invoked)]
              result == convert_to_unit(value, args.data.name, args.unit, power_unit)
          IN  /\ measurement.cmd = DispatchOf(args)[4]
              /\ power => /\ io[Len(io)].cmd = "UNIT:POWER?"
                          /\ invoked[Len(invoked) - 1].fn = "unit_power"
              /\ conversion.fn = "convert_to_unit"
              /\ conversion.args = <<value, args.data.name, args.unit, power_unit>>
              /\ LastCall.ret.exc = result.exc
              /\ result.exc = "None" => LastCall.ret.value = result.value

\* C23 witness: READ of POWER in watt on an instrument set to dBm: 10 dBm
\* measured, dBm read through unit_power, 0.01 W returned
C23_Witness ==
    /\ Len(drv_calls) = 1
    /\ ScalarInUnit
    /\ io = <<Queried("READ:POWER?", <<"1", "0">>),
              Queried("UNIT:POWER?", <<"D", "B", "M">>)>>
    /\ invoked[3] = Invoked("convert_to_unit", <<Dec(1, 1), "POWER", "watt", "dBm">>)
    /\ drv_ret = DrvReturn("get_data", Quantity(Dec(1, 0 - 2), "watt"))

\* C23 witness: FETCH of WAVELENGTH in micrometer: no power unit, one query
C23_WitnessWavelength ==
    /\ Len(drv_calls) = 1
    /\ ScalarInUnit
    /\ io = <<Queried("FETCH:WAVELENGTH?", <<"1", "0">>)>>
    /\ invoked[2] = Invoked("convert_to_unit",
                            <<Dec(1, 1), "WAVELENGTH", "micrometer", "None">>)
    /\ drv_ret = DrvReturn("get_data", Quantity(Dec(1, 0 - 2), "micrometer"))

\* C21: ENVIRONMENT and ALL are not unit-convertible: convert_to_unit fails
\* with the unsupported-conversion error naming the kind, and get_data with
\* a unit for ENVIRONMENT or ALL fails with the unsupported-conversion error
\* naming the kind, for every method and every unit; no converted value is
\* returned for these kinds.
C21_CompositeNotConvertible ==
    /\ \A kind \in {"ENVIRONMENT", "ALL"}, unit \in UnitValues \ {"None"} :
          LET result == convert_to_unit(Dec(1, 1), kind, unit, "None")
          IN  /\ result.exc = "ValueError"
              /\ result.text
                    = "Unit conversion is not supported for data type: " \o kind
    /\ \A k \in 1..Len(drv_calls) :
          LET call == drv_calls[k]
          IN  (/\ call.op = "get_data"
               /\ MemberArgs(call.arg)
               /\ call.arg.data.name \in {"ENVIRONMENT", "ALL"}
               /\ call.arg.unit # "None")
              => /\ call.ret.exc = "SCPICommandError"
                 /\ call.ret.text
                       = "Unit conversion is not supported for "
                            \o call.arg.data.name

====
